---- MODULE Spec2Model ----
(***************************************************************************)
(* Table engine of the OQ/PQ document generator: filling of Table 5,       *)
(* the page-boundary splitters (python-docx heuristic, python-docx phrase  *)
(* splitter, Word automation splitter, test-results splitter) and the row  *)
(* template expanders.                                                     *)
(*                                                                         *)
(* Specifications: Spec (splitters), SpecExpand (row expanders),           *)
(* SpecCells (cell helpers), SpecMatch (test-name comparator), SpecRisk    *)
(* (risk rows), SpecFill112 (Test 11.2 table), SpecRender (render pass),   *)
(* SpecTemps (temporary documents), SpecFlows (totals of Test 11),         *)
(* SpecBlocks (blocks of measurement points), SpecT2 (Table 2 splitter),   *)
(* SpecT11 (Test 11 calculator).                                           *)
(* Each one holds the variables of the others at their idle values.        *)
(*                                                                         *)
(* A document body is a sequence of blocks.  A block is a paragraph, a     *)
(* table or the trailing section properties.  Sequences are 1-based here;  *)
(* the operators that mirror code working with 0-based body indices keep   *)
(* the code's 0-based numbers and read the body through At.                *)
(***************************************************************************)
EXTENDS Integers, Sequences, FiniteSets, TLC

VARIABLES
    body,      \* the document: sequence of blocks
    filled,    \* body right after insert_table5_into_doc (<<>> before it)
    before,    \* body as it was when the last splitter call started
    calls,     \* the last two splitter calls, latest last: <<[op, exit, ret]>>
    nruns,     \* number of splitter calls made
    fit,       \* pagination oracle: rows of Table 5 lying wholly on its first page
    torn,      \* pagination oracle: the row after them straddles the page boundary
    tbl,       \* row expanders: the table, a sequence of rows of cell texts
    tbl0,      \* row expanders: the table before the call
    recs,      \* row expanders: the records passed to the call
    xop,       \* row expanders: the expander that ran ("" before the call)
    xret,      \* row expanders: how the call ended ("ok", "False" or "raise")
    fn,        \* helper functions: the function that was applied ("" before)
    arg,       \* helper functions: the arguments it is applied to
    res,       \* helper functions: what it returned or left behind
    worker,    \* render pass: the RenderWorker thread, its position and locals
    signals,   \* render pass: finished signals emitted and not yet handled
    window,    \* render pass: the main window, its message boxes and batch
    temps,     \* temporary documents: the with-blocks entered and the files
    t2,        \* Table 2 splitter: the loop of the Word automation
    t11        \* Test 11 calculator: the table save_docx builds

splitVars == <<body, filled, before, calls, nruns, fit, torn>>
expVars == <<tbl, tbl0, recs, xop, xret>>
pureVars == <<fn, arg, res>>
renderVars == <<worker, signals, window>>
restVars == <<temps, t2, t11>>
vars == <<body, filled, before, calls, nruns, fit, torn, tbl, tbl0, recs, xop, xret,
          fn, arg, res, worker, signals, window, temps, t2, t11>>

(***************************************************************************)
(* Bounds of the model                                                     *)
(***************************************************************************)
MaxRisk == 11      \* risk rows passed to insert_table5_into_doc
MaxPrefix == 3     \* risk rows before the row with the split phrase
MaxRuns == 2       \* splitter calls in one behaviour
MaxFit == 5        \* rows the pagination oracle may place on the first page
MaxRecs == 3       \* records passed to a row expander
MaxBelow == 2      \* rows of a template table below its template row
MaxAbove == 2      \* rows of a template table above its template row
MaxCells == 2      \* cells handed to a cell helper of tools.test11_airflow_calc

(***************************************************************************)
(* Program constants                                                       *)
(***************************************************************************)
header_rows == 2
first_page_data_rows == 4
next_page_data_rows == 6
header_rows_count == 2

(***************************************************************************)
(* Generic helpers                                                         *)
(***************************************************************************)
Min(a, b) == IF a < b THEN a ELSE b
Max(a, b) == IF a > b THEN a ELSE b

\* s[i0] for a 0-based index i0
At(s, i0) == s[i0 + 1]

\* Python s[a:b] for 0 <= a, b
Slice(s, a, b) == SubSeq(s, a + 1, Min(b, Len(s)))

\* Python s[a:]
SliceFrom(s, a) == SubSeq(s, a + 1, Len(s))

\* lxml parent.insert(i0, e): e ends up at 0-based index i0
InsertAt(s, i0, e) == SubSeq(s, 1, i0) \o <<e>> \o SubSeq(s, i0 + 1, Len(s))

\* lxml parent.remove(child) for the child at 0-based index i0
RemoveAt(s, i0) == SubSeq(s, 1, i0) \o SubSeq(s, i0 + 2, Len(s))

\* least element of a non-empty set of integers
MinOf(S) == CHOOSE x \in S : \A y \in S : x <= y

(***************************************************************************)
(* Blocks and rows                                                         *)
(***************************************************************************)
\* paragraph kinds: "cap5" = 'Таблица 5', "cont5" = 'Продолжение таблицы 5',
\* "pb" = page break only, "txt" = other text, "empty" = empty paragraph
P(t) == [k |-> "p", t |-> t, rows |-> <<>>]
\* table kinds: "t5" = Table 5, "legend" = the legend of the risk analysis,
\* "t11" = a test results table
Tbl(t, rows) == [k |-> "tbl", t |-> t, rows |-> rows]
Sect == [k |-> "sect", t |-> "", rows |-> <<>>]

\* a table row: id = identity of its content, c0 = text of its first cell,
\* vm = vertical-merge state of its first cell, th = w:tblHeader mark
Row(id, c0, vm) == [id |-> id, c0 |-> c0, vm |-> vm, th |-> FALSE, cs |-> FALSE]

TableIdxs(b) == {i \in 1..Len(b) : b[i].k = "tbl"}
ParaIdxs(b) == {i \in 1..Len(b) : b[i].k = "p"}

\* the result of one call: the document it leaves, the return statement it
\* left through, and the value returned
Res(b, exit, ret) == [body |-> b, exit |-> exit, ret |-> ret]

(***************************************************************************)
(* risk_table5.insert_table5_into_doc                                      *)
(***************************************************************************)
\* <<block index of the table, 1-based index of the row with <<T5_RISK>>>>,
\* <<0, 0>> where the code raises ValueError
find_table5_and_template_row(b) ==
    LET S == {i \in TableIdxs(b) :
                 \E r \in 1..Len(b[i].rows) : b[i].rows[r].c0 = "<<T5_RISK>>"}
    IN  IF S = {} THEN <<0, 0>>
        ELSE LET i == MinOf(S)
             IN  <<i, MinOf({r \in 1..Len(b[i].rows) : b[i].rows[r].c0 = "<<T5_RISK>>"})>>

\* first index of the run of equal consecutive risks that holds position i
RunStart(rr, i) ==
    CHOOSE s \in 1..i :
        /\ \A j \in s..i : rr[j] = rr[i]
        /\ (s = 1 \/ rr[s - 1] # rr[i])

\* last index of that run
RunEnd(rr, i) ==
    CHOOSE e \in i..Len(rr) :
        /\ \A j \in i..e : rr[j] = rr[i]
        /\ (e = Len(rr) \/ rr[e + 1] # rr[i])

\* the i-th appended row: a clone of the template row filled from risk_rows[i];
\* column 0 is merged over each run of more than one equal risk, the text
\* staying in the top cell of the run
FilledRow(rr, tpl, i) ==
    LET s == RunStart(rr, i)
        e == RunEnd(rr, i)
    IN  IF e - s + 1 > 1
        THEN IF i = s THEN Row(tpl - 1 + i, rr[i], "restart")
                      ELSE Row(tpl - 1 + i, "", "continue")
        ELSE Row(tpl - 1 + i, rr[i], "none")

insert_table5_into_doc(b, rr) ==
    LET f == find_table5_and_template_row(b)
        ti == f[1]
        tpl == f[2]
        kept == SubSeq(b[ti].rows, 1, tpl - 1)
        new == [i \in 1..Len(rr) |-> FilledRow(rr, tpl, i)]
    IN  [b EXCEPT ![ti].rows = kept \o new]

(***************************************************************************)
(* risk_table5.split_table5_like_example                                   *)
(***************************************************************************)
IsCaption5(blk) == blk.k = "p" /\ blk.t = "cap5"
IsContinuation5(blk) == blk.k = "p" /\ blk.t = "cont5"

\* 0-based body index of the first table after the first 'Таблица 5'
\* paragraph, -1 for None
find_caption_and_first_table5(b) ==
    LET caps == {i \in 0..Len(b) - 1 : IsCaption5(At(b, i))}
    IN  IF caps = {} THEN -1
        ELSE LET cap == MinOf(caps)
                 tbls == {j \in cap + 1..Len(b) - 1 : At(b, j).k = "tbl"}
             IN  IF tbls = {} THEN -1 ELSE MinOf(tbls)

\* the guard against a repeated run: a continuation caption among the
\* children tbl_body_idx+1 .. min(tbl_body_idx+8, len(children))-1
\* the same guard looking only at the child right after the table
ContinuationAfter_NextOnly(b, tbl_body_idx) ==
    \E k \in tbl_body_idx + 1..Min(tbl_body_idx + 2, Len(b)) - 1 :
        IsContinuation5(At(b, k))

ContinuationAfter(b, tbl_body_idx) ==
    \E k \in tbl_body_idx + 1..Min(tbl_body_idx + 8, Len(b)) - 1 :
        IsContinuation5(At(b, k))

\* the same chunks cut with the first page's budget
RECURSIVE RestChunks_FirstPageBudget(_)
RestChunks_FirstPageBudget(rest) ==
    IF rest = <<>> THEN <<>>
    ELSE <<Slice(rest, 0, first_page_data_rows)>>
             \o RestChunks_FirstPageBudget(SliceFrom(rest, first_page_data_rows))

\* chunks of the data rows after the first one
RECURSIVE RestChunks(_)
RestChunks(rest) ==
    IF rest = <<>> THEN <<>>
    ELSE <<Slice(rest, 0, next_page_data_rows)>>
             \o RestChunks(SliceFrom(rest, next_page_data_rows))

\* doc.add_paragraph: the new paragraph goes before the trailing sectPr
AddParagraph(b, p) ==
    IF Len(b) > 0 /\ b[Len(b)].k = "sect" THEN InsertAt(b, Len(b) - 1, p)
    ELSE b \o <<p>>

\* the same loop with the caption inserted at the page break's index
RECURSIVE InsertParts_CaptionFirst(_, _, _, _)
InsertParts_CaptionFirst(b, insert_after_idx, parts, base) ==
    IF parts = <<>> THEN b
    ELSE LET b1 == InsertAt(b, insert_after_idx + 1, P("pb"))
             b3 == InsertAt(b1, insert_after_idx + 1, P("cont5"))
             b4 == InsertAt(b3, insert_after_idx + 3, Tbl(base.t, Head(parts)))
         IN  InsertParts_CaptionFirst(b4, insert_after_idx + 3, Tail(parts), base)

\* one pass of the loop over chunks[1:], for the parts not yet inserted
RECURSIVE InsertParts(_, _, _, _)
InsertParts(b, insert_after_idx, parts, base) ==
    IF parts = <<>> THEN b
    ELSE LET b1 == InsertAt(b, insert_after_idx + 1, P("pb"))
             b2 == AddParagraph(b1, P("cont5"))
             at == IF b1[Len(b1)].k = "sect" THEN Len(b2) - 2 ELSE Len(b2) - 1
             b3 == InsertAt(RemoveAt(b2, at), insert_after_idx + 2, P("cont5"))
             b4 == InsertAt(b3, insert_after_idx + 3, Tbl(base.t, Head(parts)))
         IN  InsertParts(b4, insert_after_idx + 3, Tail(parts), base)

split_table5_like_example(b) ==
    LET tbl_body_idx == find_caption_and_first_table5(b)
    IN  IF tbl_body_idx = -1 THEN Res(b, "notfound", "None")
        ELSE IF ContinuationAfter(b, tbl_body_idx) THEN Res(b, "guard", "None")
        ELSE LET base == At(b, tbl_body_idx)
                 tr_list == base.rows
             IN  IF Len(tr_list) <= header_rows THEN Res(b, "short", "None")
                 ELSE LET header_trs == Slice(tr_list, 0, header_rows)
                          data_trs == SliceFrom(tr_list, header_rows)
                      IN  IF Len(data_trs) <= first_page_data_rows
                          THEN Res(b, "fits", "None")
                          ELSE LET chunk0 == Slice(data_trs, 0, first_page_data_rows)
                                   rest == SliceFrom(data_trs, first_page_data_rows)
                                   b0 == [b EXCEPT ![tbl_body_idx + 1].rows =
                                                       header_trs \o chunk0]
                               IN  Res(InsertParts(b0, tbl_body_idx, RestChunks(rest), base),
                                       "split", "None")

(***************************************************************************)
(* ui/main_window.split_table5_with_continuation_open_doc (python-docx)    *)
(***************************************************************************)
\* the header keywords sit in the first two rows
looks_like_table5(blk) ==
    /\ Len(blk.rows) > 0
    /\ (blk.rows[1].c0 = "hdr" \/ (Len(blk.rows) > 1 /\ blk.rows[2].c0 = "hdr"))

\* row.cells[0].text of the 0-based row ri as python-docx reads it: a cell
\* that continues a vertical merge resolves to the cell above it
RECURSIVE CellText0(_, _)
CellText0(rows, ri) ==
    IF At(rows, ri).vm = "continue" /\ ri > 0 THEN CellText0(rows, ri - 1)
    ELSE At(rows, ri).c0

\* the three addnext calls: page break, title and new table right after
\* the block at 1-based index ti
InsertContinuationAfter(b, ti, new_tbl) ==
    SubSeq(b, 1, ti) \o <<P("pb"), P("cont5"), new_tbl>> \o SubSeq(b, ti + 1, Len(b))

split_table5_with_continuation_open_doc_docx(b) ==
    LET cands == {i \in TableIdxs(b) : looks_like_table5(b[i])}
    IN  IF cands = {} THEN Res(b, "notfound", "False")
        ELSE IF \E i \in ParaIdxs(b) : IsContinuation5(b[i]) THEN Res(b, "guard", "False")
        ELSE LET ti == MinOf(cands)
                 rows == b[ti].rows
             IN  IF Len(rows) <= header_rows_count THEN Res(b, "short", "False")
                 ELSE LET hits == {ri \in header_rows_count..Len(rows) - 1 :
                                      CellText0(rows, ri) = "phrase"}
                      IN  IF hits = {} THEN Res(b, "nophrase", "False")
                          ELSE LET split_row_idx == MinOf(hits)
                                   header_trs == Slice(rows, 0, header_rows_count)
                                   data_trs == SliceFrom(rows, header_rows_count)
                                   split_data_pos == split_row_idx - header_rows_count
                               IN  IF split_row_idx <= header_rows_count
                                   THEN Res(b, "atstart", "False")
                                   ELSE IF ~(0 < split_data_pos /\ split_data_pos < Len(data_trs))
                                   THEN Res(b, "range", "False")
                                   ELSE LET new_tbl == [b[ti] EXCEPT !.rows =
                                                header_trs \o SliceFrom(data_trs, split_data_pos)]
                                            old == [b EXCEPT ![ti].rows =
                                                header_trs \o Slice(data_trs, 0, split_data_pos)]
                                        IN  Res(InsertContinuationAfter(old, ti, new_tbl),
                                                "split", "True")

(***************************************************************************)
(* word_repeat_headers.split_test_results_table                            *)
(***************************************************************************)
header_rows_results == 2

\* w:tblHeader on the first min(header_rows, len) rows
MarkHeaders(rows) ==
    [i \in 1..Len(rows) |->
        IF i <= Min(header_rows_results, Len(rows)) THEN [rows[i] EXCEPT !.th = TRUE]
        ELSE rows[i]]

\* the same split with the new table starting one row late
SplitOneResultsTable_DropsRow(blk) ==
    LET marks == {i \in 0..Len(blk.rows) - 1 : At(blk.rows, i).c0 = "results"}
    IN  IF blk.k # "tbl" \/ marks = {} THEN <<blk>>
        ELSE LET start_new == MinOf(marks) + 1
             IN  IF start_new >= Len(blk.rows) THEN <<blk>>
                 ELSE <<[blk EXCEPT !.rows = Slice(blk.rows, 0, start_new)],
                        [blk EXCEPT !.rows = MarkHeaders(SliceFrom(blk.rows, start_new + 1))]>>

\* what one table of doc.tables becomes: itself, or the old table followed
\* by the new one
SplitOneResultsTable(blk) ==
    LET marks == {i \in 0..Len(blk.rows) - 1 : At(blk.rows, i).c0 = "results"}
    IN  IF blk.k # "tbl" \/ marks = {} THEN <<blk>>
        ELSE LET start_new == MinOf(marks) + 1
             IN  IF start_new >= Len(blk.rows) THEN <<blk>>
                 ELSE <<[blk EXCEPT !.rows = Slice(blk.rows, 0, start_new)],
                        [blk EXCEPT !.rows = MarkHeaders(SliceFrom(blk.rows, start_new))]>>

RECURSIVE SplitAllResultsTables(_)
SplitAllResultsTables(b) ==
    IF b = <<>> THEN <<>>
    ELSE SplitOneResultsTable(Head(b)) \o SplitAllResultsTables(Tail(b))

split_test_results_table(b) ==
    LET nb == SplitAllResultsTables(b)
        changed == Len(nb) - Len(b)
    IN  Res(nb, IF changed > 0 THEN "split" ELSE "nosplit", ToString(changed))

(***************************************************************************)
(* word_table5_splitter (Word automation).  Word's character positions are *)
(* rendered on the block sequence: the position after a table is the       *)
(* boundary after its block, and the text between two tables is the text   *)
(* of the paragraphs between them, each ended by its paragraph mark.       *)
(***************************************************************************)
header_rows_word == 2

looks_like_table5_by_placeholder(blk) ==
    \E r \in 1..Len(blk.rows) : blk.rows[r].c0 = "<<T5_RISK>>"

looks_like_table5_word(blk) ==
    \/ \E r \in 1..Len(blk.rows) : blk.rows[r].c0 = "hdr"
    \/ looks_like_table5_by_placeholder(blk)

looks_like_legend_table(blk) == blk.t = "legend"

\* 1-based block index of the first table after block i, 0 for None
get_first_table_after_pos(b, i) ==
    LET S == {j \in TableIdxs(b) : j > i}
    IN  IF S = {} THEN 0 ELSE MinOf(S)

\* 1-based block index of Table 5, 0 for None
find_table5_word(b) ==
    LET ph == {i \in TableIdxs(b) : looks_like_table5_by_placeholder(b[i])}
        caps == {i \in 1..Len(b) : IsCaption5(b[i])}
        after == IF caps = {} THEN 0 ELSE get_first_table_after_pos(b, MinOf(caps))
        scan == {i \in TableIdxs(b) : looks_like_table5_word(b[i])}
    IN  IF ph # {} THEN MinOf(ph)
        ELSE IF after # 0 /\ looks_like_table5_word(b[after]) THEN after
        ELSE IF scan # {} THEN MinOf(scan)
        ELSE 0

\* the pagination oracle for the rows of Table 5 (1-based row r); the table
\* starts on page 1, f rows lie wholly on it, and with tn the next row
\* starts on page 1 and ends on page 2
row_start_page(f, tn, r) == IF r <= f \/ (r = f + 1 /\ tn) THEN 1 ELSE 2
row_end_page(f, tn, r) == IF r <= f THEN 1 ELSE 2

\* Selection.SplitTable before the 1-based row r of the table at block ti:
\* Word puts an empty paragraph between the two parts
SplitTable(b, ti, r) ==
    SubSeq(b, 1, ti - 1)
        \o <<[b[ti] EXCEPT !.rows = SubSeq(b[ti].rows, 1, r - 1)],
             P("empty"),
             [b[ti] EXCEPT !.rows = SubSeq(b[ti].rows, r, Len(b[ti].rows))]>>
        \o SubSeq(b, ti + 1, Len(b))

\* the text of the paragraphs of a gap, "CR" standing for a paragraph mark
RECURSIVE GapText(_)
GapText(gap) ==
    IF gap = <<>> THEN <<>>
    ELSE (IF Head(gap).t = "empty" THEN <<"CR">> ELSE <<Head(gap).t, "CR">>)
             \o GapText(Tail(gap))

ensure_paragraph_between_tables(b, ai, bi) ==
    LET t == GapText(SubSeq(b, ai + 1, bi - 1))
        a_end == 0
        b_start == a_end + Len(t)
    IN  IF b_start <= a_end THEN b
        ELSE IF \A i \in 1..Len(t) : t[i] # "CR"
             THEN SubSeq(b, 1, ai) \o <<P("empty")>> \o SubSeq(b, ai + 1, Len(b))
             ELSE b

\* Rows(rr).HeadingFormat = True for the first header_rows rows
HeadingFormat(rows) ==
    [i \in 1..Len(rows) |->
        IF i <= header_rows_word THEN [rows[i] EXCEPT !.th = TRUE] ELSE rows[i]]

\* InsertBreak and TypeText: page break and caption typed into the empty
\* paragraph SplitTable left after the table at block ti
TypeCaption(b1, ti) ==
    SubSeq(b1, 1, ti) \o <<P("pb"), P("cont5")>> \o SubSeq(b1, ti + 1, Len(b1))

\* Paste: the copied header rows pasted as a table after the caption
PasteHeader(b2, ti, hdr_tbl) ==
    SubSeq(b2, 1, ti + 2) \o <<hdr_tbl>> \o SubSeq(b2, ti + 3, Len(b2))

\* the gap between the pasted header and the data table deleted, which joins
\* them, and the header rows of the joined table marked as heading rows
JoinHeader(b3, ti) ==
    SubSeq(b3, 1, ti + 2)
        \o <<[b3[ti + 3] EXCEPT !.rows = HeadingFormat(b3[ti + 3].rows \o b3[ti + 5].rows)]>>
        \o SubSeq(b3, ti + 6, Len(b3))

\* the guard against a legend table stuck to the continuation table
LegendGuard(b4, ci) ==
    IF /\ get_first_table_after_pos(b4, ci) # 0
       /\ looks_like_legend_table(b4[get_first_table_after_pos(b4, ci)])
    THEN ensure_paragraph_between_tables(b4, ci, get_first_table_after_pos(b4, ci))
    ELSE b4

\* the rows the pagination oracle reports as starting on a later page than
\* the table or as broken over two pages
SplitRows(rows_count, f, tn) ==
    {r \in header_rows_word + 1..rows_count :
        \/ row_start_page(f, tn, r) > row_start_page(f, tn, 1)
        \/ row_end_page(f, tn, r) > row_start_page(f, tn, r)}

\* the steps from the header copy on, for the table at block ti and the
\* split row r; fail names the automation step that fails ("none": no step)
SplitAtRow(b, ti, r, fail) ==
    IF fail = "copy" THEN Res(b, "copyfail", "False")
    ELSE IF fail = "tbl2" THEN Res(SplitTable(b, ti, r), "notbl2", "False")
    ELSE IF fail = "paste"
         THEN Res(TypeCaption(SplitTable(b, ti, r), ti), "pastefail", "False")
    ELSE IF fail = "hdrtbl"
         THEN Res(PasteHeader(TypeCaption(SplitTable(b, ti, r), ti), ti,
                              [b[ti] EXCEPT !.rows = SubSeq(b[ti].rows, 1, header_rows_word)]),
                  "nohdrtbl", "False")
    ELSE Res(LegendGuard(
                 JoinHeader(
                     PasteHeader(TypeCaption(SplitTable(b, ti, r), ti), ti,
                                 [b[ti] EXCEPT !.rows = SubSeq(b[ti].rows, 1, header_rows_word)]),
                     ti),
                 ti + 3),
             "split", "True")

\* tbl.Rows.AllowBreakAcrossPages = False for the table at block ti
NoBreakAcrossPages(b, ti) ==
    [b EXCEPT ![ti].rows = [i \in 1..Len(@) |-> [@[i] EXCEPT !.cs = TRUE]]]

\* the page checks and the search for the split row, for the table at block
\* ti whose rows may no longer break across pages
SplitPaged(b, ti, f, tn, fail) ==
    IF row_start_page(f, tn, 1) = row_end_page(f, tn, Len(b[ti].rows))
    THEN Res(b, "onepage", "False")
    ELSE IF Len(b[ti].rows) <= header_rows_word + 1 THEN Res(b, "fewrows", "False")
    ELSE IF SplitRows(Len(b[ti].rows), f, tn) = {} THEN Res(b, "norow", "False")
    ELSE SplitAtRow(b, ti, MinOf(SplitRows(Len(b[ti].rows), f, tn)), fail)

\* the guard against a second run, for the table at block ti
SplitFound(b, ti, f, tn, fail) ==
    IF \E k \in ti + 1..Len(b) : IsContinuation5(b[k]) THEN Res(b, "guard", "False")
    ELSE SplitPaged(NoBreakAcrossPages(b, ti), ti, f, tn, fail)

split_table5_with_continuation_open_doc_word(b, f, tn, fail) ==
    IF find_table5_word(b) = 0 THEN Res(b, "notfound", "False")
    ELSE SplitFound(b, find_table5_word(b), f, tn, fail)

(***************************************************************************)
(* The documents and inputs of the model                                   *)
(***************************************************************************)
MaxTestRows == 4   \* rows of a test results table

TemplateT5(stale) ==
    Tbl("t5", <<Row(1, "hdr", "none"), Row(2, "hdr", "none"),
                Row(3, "<<T5_RISK>>", "none")>> \o stale)

Legend == Tbl("legend", <<Row(1, "x", "none"), Row(2, "x", "none")>>)

T5Docs ==
    { <<P("cap5"), TemplateT5(<<Row(4, "", "none")>>), Sect>>,
      <<P("cap5"), TemplateT5(<<>>), Legend, Sect>>,
      <<P("cap5"), TemplateT5(<<>>), P("txt"), Legend, Sect>>,
      <<P("txt"), TemplateT5(<<>>), P("txt"), Sect>> }

TestDocs ==
    { <<P("txt"), Tbl("t11", [i \in 1..n |-> Row(i, txt[i], "none")]), P("txt"), Sect>> :
        n \in {MaxTestRows}, txt \in [1..MaxTestRows -> {"results", "x"}] }

\* risk_rows by their risks: d rows; the first a of them alternate between
\* two risks, then come at most two rows of the risk that carries the split
\* phrase, and the remaining rows share one more risk
RiskSeq(d, a) ==
    [i \in 1..d |->
        IF i <= a THEN (IF i % 2 = 1 THEN "A" ELSE "B")
        ELSE IF i <= a + 2 THEN "phrase"
        ELSE "C"]

RiskInputs == {RiskSeq(d, a) : d \in 0..MaxRisk, a \in 0..MaxPrefix}

\* the steps of the Word splitter that may fail: copying the header range,
\* finding the second table after SplitTable, pasting the header, finding the
\* pasted header table
ComFails == {"none", "copy", "tbl2", "paste", "hdrtbl"}

(***************************************************************************)
(* The state machine of the splitters                                      *)
(***************************************************************************)
Call(op, r) ==
    /\ body' = r.body
    /\ before' = body
    /\ calls' = (IF calls = <<>> THEN <<>> ELSE <<calls[Len(calls)]>>)
                    \o <<[op |-> op, exit |-> r.exit, ret |-> r.ret]>>
    /\ nruns' = nruns + 1

InitPureIdle ==
    /\ fn = ""
    /\ arg = <<>>
    /\ res = <<>>

InitRenderIdle ==
    /\ worker = <<>>
    /\ signals = <<>>
    /\ window = <<>>

InitRestIdle == temps = <<>> /\ t2 = <<>> /\ t11 = <<>>

InitExpIdle ==
    /\ tbl = <<>>
    /\ tbl0 = <<>>
    /\ recs = <<>>
    /\ xop = ""
    /\ xret = ""

Init ==
    /\ body \in T5Docs \cup TestDocs
    /\ filled = IF body \in TestDocs THEN body ELSE <<>>
    /\ before = <<>>
    /\ calls = <<>>
    /\ nruns = 0
    /\ fit = 0
    /\ torn = FALSE
    /\ InitExpIdle
    /\ InitPureIdle
    /\ InitRenderIdle
    /\ InitRestIdle

Fill ==
    /\ filled = <<>>
    /\ \E rr \in RiskInputs :
        /\ body' = insert_table5_into_doc(body, rr)
        /\ filled' = insert_table5_into_doc(body, rr)
    /\ UNCHANGED <<before, calls, nruns, fit, torn>>
    /\ UNCHANGED <<expVars, pureVars, renderVars, restVars>>

CallLike ==
    /\ filled # <<>>
    /\ nruns < MaxRuns
    /\ Call("like", split_table5_like_example(body))
    /\ UNCHANGED <<filled, fit, torn>>
    /\ UNCHANGED <<expVars, pureVars, renderVars, restVars>>

CallDocx ==
    /\ filled # <<>>
    /\ nruns < MaxRuns
    /\ Call("docx", split_table5_with_continuation_open_doc_docx(body))
    /\ UNCHANGED <<filled, fit, torn>>
    /\ UNCHANGED <<expVars, pureVars, renderVars, restVars>>

\* The oracle is asked once the table is found and no continuation follows
\* it; what it said stays true of the rows left in the first table.
CallWord ==
    /\ filled # <<>>
    /\ nruns < MaxRuns
    /\ \E f \in (IF fit = 0 THEN header_rows_word..MaxFit ELSE {fit}),
          tn \in (IF fit = 0 THEN BOOLEAN ELSE {torn}),
          fail \in ComFails :
        LET r == split_table5_with_continuation_open_doc_word(body, f, tn, fail)
            asked == r.exit \notin {"notfound", "guard"}
            n == IF asked THEN Len(r.body[find_table5_word(r.body)].rows) ELSE 0
        IN  /\ Call("word", r)
            /\ fit' = IF asked THEN Min(f, n) ELSE fit
            /\ torn' = IF asked THEN (tn /\ f < n) ELSE torn
    /\ UNCHANGED filled
    /\ UNCHANGED <<expVars, pureVars, renderVars, restVars>>

CallResults ==
    /\ filled # <<>>
    /\ nruns < MaxRuns
    /\ Call("results", split_test_results_table(body))
    /\ UNCHANGED <<filled, fit, torn>>
    /\ UNCHANGED <<expVars, pureVars, renderVars, restVars>>

Next == Fill \/ CallLike \/ CallDocx \/ CallWord \/ CallResults

Spec == Init /\ [][Next]_vars

(***************************************************************************)
(* Row expanders: table_processor.process_rooms_table,                     *)
(* table_processor.process_equipment_table and                             *)
(* ui.main_window.fill_report_table1_rooms_by_hashes.                      *)
(* A table is a sequence of rows, a row a sequence of cells, a cell what   *)
(* its text is: a placeholder token, a field of a record, a fixed text or  *)
(* nothing.                                                                *)
(***************************************************************************)
Blank == [kind |-> "blank", i |-> 0, k |-> 0]
Txt(n) == [kind |-> "txt", i |-> 0, k |-> n]
\* "@k" of PH, k in 1..4
AtTok(k) == [kind |-> "at", i |-> 0, k |-> k]
\* the k-th key of ph2key / token_to_key: 1 "#", 2 "##", ..., 10 "#%%%"
HashTok(k) == [kind |-> "hash", i |-> 0, k |-> k]
\* the header text header_map gives for the k-th token; k = 1 is
\* "Номер помещения"
HeaderName(k) == [kind |-> "hname", i |-> 0, k |-> k]
\* the text of field k of record i
Val(i, k) == [kind |-> "val", i |-> i, k |-> k]
\* "date / until" of record i: k = 3 both parts, 1 the date only, 2 until only
Dates(i, k) == [kind |-> "dates", i |-> i, k |-> k]

\* a record: its number and the keys whose value is "" or missing
Rec(i, blank) == [id |-> i, blank |-> blank]
\* room.get(key, "") / eq.get(key, "") or ""
Field(rec, k) == IF k \in rec.blank THEN Blank ELSE Val(rec.id, k)

\* date_full of process_equipment_table: keys 4 "date", 5 "until"
date_full(eq) ==
    IF 4 \in eq.blank /\ 5 \in eq.blank THEN Blank
    ELSE IF 5 \in eq.blank THEN Dates(eq.id, 1)
    ELSE IF 4 \in eq.blank THEN Dates(eq.id, 2)
    ELSE Dates(eq.id, 3)

\* the list values of process_equipment_table
values(eq) == <<Field(eq, 1), Field(eq, 2), Field(eq, 3), date_full(eq)>>

HasAt(row) == \E c \in 1..Len(row) : row[c].kind = "at"
HasHash(row) == \E c \in 1..Len(row) : row[c].kind = "hash"

XRes(t, ret) == [tbl |-> t, ret |-> ret]

\* 0-based index of the first row with one of @1..@4, -1 when there is none
sample_idx_equipment(t) ==
    IF \E r \in 1..Len(t) : HasAt(t[r])
    THEN MinOf({r \in 1..Len(t) : HasAt(t[r])}) - 1 ELSE -1

process_equipment_table(t, equipment) ==
    LET sample_idx == sample_idx_equipment(t)
    IN  IF sample_idx < 0 THEN XRes(t, "raise")
        ELSE LET sample_tr == At(t, sample_idx)
                 new_row(eq) == [ci \in 1..Len(sample_tr) |->
                                    IF ci - 1 < Len(values(eq)) THEN values(eq)[ci] ELSE Blank]
             IN  XRes(Slice(t, 0, sample_idx)
                          \o [n \in 1..Len(equipment) |-> new_row(equipment[n])],
                      "ok")

\* the header row after the runs that are keys of header_map are replaced
RoomsHeader(hdr) ==
    [c \in 1..Len(hdr) |-> IF hdr[c].kind = "hash" THEN HeaderName(hdr[c].k) ELSE hdr[c]]

\* 0-based index of the first row after the header that has a key of ph2key,
\* -1 when there is none
sample_idx_rooms(t) ==
    IF \E r \in 2..Len(t) : HasHash(t[r])
    THEN MinOf({r \in 2..Len(t) : HasHash(t[r])}) - 1 ELSE -1

process_rooms_table(t, rooms) ==
    IF t = <<>> \/ Head(t) = <<>> \/ Head(t)[1] # HeaderName(1) THEN XRes(t, "raise")
    ELSE LET t1 == <<RoomsHeader(Head(t))>> \o Tail(t)
             sample_idx == sample_idx_rooms(t1)
         IN  IF sample_idx < 0 THEN XRes(t1, "raise")
             ELSE LET sample_tr == At(t1, sample_idx)
                      new_row(room) == [c \in 1..Len(sample_tr) |->
                                           IF sample_tr[c].kind = "hash"
                                           THEN Field(room, sample_tr[c].k) ELSE Blank]
                  IN  XRes(<<Head(t1)>> \o [n \in 1..Len(rooms) |-> new_row(rooms[n])], "ok")

\* a row whose cell texts include "#", "##" and "#%%%"
IsReportTemplateRow(row) ==
    \A k \in {1, 2, 10} : \E c \in 1..Len(row) : row[c] = HashTok(k)

\* 0-based index of the first such row, -1 when there is none
tmpl_row_idx(t) ==
    IF \E r \in 1..Len(t) : IsReportTemplateRow(t[r])
    THEN MinOf({r \in 1..Len(t) : IsReportTemplateRow(t[r])}) - 1 ELSE -1

\* the rows of the table with the cells of row ri that hold a token set to
\* the field of the room, or to "" when there is no room for the row
FillReportRow(row, rooms, i) ==
    [c \in 1..Len(row) |->
        IF row[c].kind = "hash"
        THEN (IF i < Len(rooms) THEN Field(At(rooms, i), row[c].k) ELSE Blank)
        ELSE row[c]]

fill_report_table1_rooms_by_hashes(t, rooms) ==
    LET ti == tmpl_row_idx(t)
    IN  IF ti < 0 THEN XRes(t, "False")
        ELSE LET base_tr == At(t, ti)
                 need == Max(1, Len(rooms))
                 have == Len(t) - ti
                 t1 == IF need > have THEN t \o [n \in 1..need - have |-> base_tr] ELSE t
             IN  XRes([r \in 1..Len(t1) |->
                          IF r - 1 >= ti /\ r - 1 < ti + need
                          THEN FillReportRow(t1[r], rooms, r - 1 - ti) ELSE t1[r]],
                      "True")

(***************************************************************************)
(* Inputs and state machine of the row expanders                           *)
(***************************************************************************)
TextRow == <<Txt(1), Txt(2)>>
SeqsUpTo(S, n) == UNION {[1..m -> S] : m \in 0..n}

\* template rows with @1..@4: in columns 0..3, after a number column,
\* before a note column, and with @1 and @2 swapped
EqTemplates ==
    { <<AtTok(1), AtTok(2), AtTok(3), AtTok(4)>>,
      <<Txt(0), AtTok(1), AtTok(2), AtTok(3), AtTok(4)>>,
      <<AtTok(1), AtTok(2), AtTok(3), AtTok(4), Txt(5)>>,
      <<AtTok(2), AtTok(1), AtTok(3), AtTok(4)>> }

\* template rows with "#", "##", "#%%%"
RoomTemplates ==
    { <<HashTok(1), HashTok(2), HashTok(10)>>,
      <<HashTok(1), Txt(9), HashTok(2), HashTok(10)>> }

TablesWith(first, tpls, aboveFrom) ==
    UNION { { first \o above \o <<tpl>> \o below :
                above \in {[n \in 1..a |-> TextRow] : a \in aboveFrom..MaxAbove},
                below \in SeqsUpTo({tpl, TextRow}, MaxBelow) } : tpl \in tpls }

EquipmentTables == TablesWith(<<>>, EqTemplates, 0)
\* the rooms table of the protocol: its header row starts with
\* "Номер помещения"
RoomsTables == TablesWith(<<<<HeaderName(1), HashTok(2), Txt(3)>>>>, RoomTemplates, 0)
\* Table 1 of the report
ReportTables == TablesWith(<<>>, RoomTemplates, 1)
\* tables without a template row
BareTables == {<<TextRow>>, <<<<HeaderName(1), HashTok(2), Txt(3)>>, TextRow>>}

ExpTables == EquipmentTables \cup RoomsTables \cup ReportTables \cup BareTables

\* the keys of a record that are "" or missing: none, the second and the
\* fifth, all
BlankSets == {{}, {2, 5}, 1..10}
RecLists ==
    { [n \in 1..Len(bl) |-> Rec(n, bl[n])] : bl \in SeqsUpTo(BlankSets, MaxRecs) }

InitSplitIdle ==
    /\ body = <<>>
    /\ filled = <<>>
    /\ before = <<>>
    /\ calls = <<>>
    /\ nruns = 0
    /\ fit = 0
    /\ torn = FALSE

InitExpand ==
    /\ InitSplitIdle
    /\ InitPureIdle
    /\ InitRenderIdle
    /\ InitRestIdle
    /\ tbl \in ExpTables
    /\ tbl0 = tbl
    /\ recs = <<>>
    /\ xop = ""
    /\ xret = ""

Expand(op, rr, r) ==
    /\ xop = ""
    /\ tbl' = r.tbl
    /\ tbl0' = tbl
    /\ recs' = rr
    /\ xop' = op
    /\ xret' = r.ret
    /\ UNCHANGED <<splitVars, pureVars, renderVars, restVars>>

RunRooms == \E rr \in RecLists : Expand("rooms", rr, process_rooms_table(tbl, rr))

RunEquipment == \E rr \in RecLists : Expand("equipment", rr, process_equipment_table(tbl, rr))

RunReport ==
    \E rr \in RecLists : Expand("report", rr, fill_report_table1_rooms_by_hashes(tbl, rr))

NextExpand == RunRooms \/ RunEquipment \/ RunReport

SpecExpand == InitExpand /\ [][NextExpand]_vars

(***************************************************************************)
(* Cell helpers of tools/test11_airflow_calc.py.                           *)
(* A text is a sequence of atoms ("x" a letter, "sp" a space, "nbsp" a     *)
(* non-breaking space, "{room}" and "###" placeholder tokens, "pom" the    *)
(* word "Помещение", "pomy" the word "помещений", "R" and "K" the values   *)
(* of a room and of a class).  A cell has a merge state and paragraphs, a  *)
(* paragraph is a sequence of runs, a run is a text.                       *)
(***************************************************************************)
RECURSIVE Flatten(_)
Flatten(ss) == IF ss = <<>> THEN <<>> ELSE Head(ss) \o Flatten(Tail(ss))

Cell(vm, paras) == [vm |-> vm, paras |-> paras]

write_cell_text(cell, text) ==
    LET paras == IF cell.paras = <<>> THEN <<<<>>>> ELSE cell.paras
        p == Head(paras)
    IN  [cell EXCEPT !.paras =
            <<IF p # <<>> THEN [i \in 1..Len(p) |-> IF i = 1 THEN text ELSE <<>>]
                          ELSE <<text>>>>
                \o Tail(paras)]

cell_text_all_runs(cell) ==
    LET joined == Flatten(Flatten(cell.paras))
    IN  [i \in 1..Len(joined) |-> IF joined[i] = "nbsp" THEN "sp" ELSE joined[i]]

clear_vmerge(cell) == [cell EXCEPT !.vm = "none"]
set_vmerge(cell, restart) == [cell EXCEPT !.vm = IF restart THEN "restart" ELSE "continue"]

vmerge_cells(cells, top_value) ==
    IF cells = <<>> THEN cells
    ELSE [i \in 1..Len(cells) |->
            IF i = 1 THEN set_vmerge(write_cell_text(clear_vmerge(cells[1]), top_value), TRUE)
            ELSE set_vmerge(write_cell_text(clear_vmerge(cells[i]), <<>>), FALSE)]

\* str.replace of every token of toks by val
ReplaceTokens(txt, toks, val) ==
    Flatten([i \in 1..Len(txt) |-> IF txt[i] \in toks THEN val ELSE <<txt[i]>>])

\* str.strip
RECURSIVE Strip(_)
Strip(txt) ==
    IF txt = <<>> THEN txt
    ELSE IF Head(txt) \in {"sp", "nbsp"} THEN Strip(Tail(txt))
    ELSE IF txt[Len(txt)] \in {"sp", "nbsp"} THEN Strip(SubSeq(txt, 1, Len(txt) - 1))
    ELSE txt

RoomTokens == {"{room}"}
KlassTokens == {"###"}

\* new_txt of the first loop of replace_room_in_row
NewRoomText(txt, room_value, klass) ==
    IF klass # <<>>
    THEN ReplaceTokens(ReplaceTokens(txt, RoomTokens, room_value), KlassTokens, klass)
    ELSE ReplaceTokens(txt, RoomTokens, room_value)

\* the index of the last atom of group 1 of the pattern in txt: the word
\* "Помещение" at index i and the spaces after it
RECURSIVE EndOfSpaces(_, _)
EndOfSpaces(txt, i) ==
    IF i < Len(txt) /\ txt[i + 1] = "sp" THEN EndOfSpaces(txt, i + 1) ELSE i

\* new_txt of the second loop, for a text that has the word
RoomAfterWord(txt, room_value, klass) ==
    LET hits == {i \in 1..Len(txt) : txt[i] = "pom"}
        new_txt == IF hits # {}
                   THEN SubSeq(txt, 1, EndOfSpaces(txt, MinOf(hits))) \o room_value
                   ELSE Strip(txt) \o <<"sp">> \o room_value
    IN  IF klass # <<>> THEN ReplaceTokens(new_txt, KlassTokens, klass) ELSE new_txt

HasWord(txt) == \E i \in 1..Len(txt) : txt[i] \in {"pom", "pomy"}

replace_room_in_row(row, room_value, klass0) ==
    LET klass == Strip(klass0)
        txt(c) == cell_text_all_runs(row[c])
        changed == {c \in 1..Len(row) : NewRoomText(txt(c), room_value, klass) # txt(c)}
        words == {c \in 1..Len(row) : HasWord(txt(c))}
    IN  IF changed # {}
        THEN [c \in 1..Len(row) |->
                IF c \in changed
                THEN write_cell_text(row[c], NewRoomText(txt(c), room_value, klass))
                ELSE row[c]]
        ELSE IF words # {}
        THEN [row EXCEPT ![MinOf(words)] =
                write_cell_text(@, RoomAfterWord(txt(MinOf(words)), room_value, klass))]
        ELSE IF row # <<>>
        THEN [row EXCEPT ![1] =
                write_cell_text(@, IF klass # <<>>
                                   THEN ReplaceTokens(<<"pom", "sp">> \o room_value,
                                                      KlassTokens, klass)
                                   ELSE <<"pom", "sp">> \o room_value)]
        ELSE row

(***************************************************************************)
(* Inputs and state machine of the cell helpers                            *)
(***************************************************************************)
\* the paragraphs of a cell: none, one without runs, one run, two runs, two
\* paragraphs, a room header with both tokens, a room header whose class
\* token sits in a second paragraph, a text with the word but no token
CellParas ==
    { <<>>,
      <<<<>>>>,
      <<<<<<"x">>>>>>,
      <<<<<<"x">>, <<"nbsp", "x">>>>>>,
      <<<<<<"x">>>>, <<<<"x">>>>>>,
      <<<<<<"pom", "sp", "{room}", "sp", "###">>>>>>,
      <<<<<<"{room}">>>>, <<<<"###">>>>>>,
      <<<<<<"pomy", "sp", "x">>>>>> }

CellSet == {Cell(vm, ps) : vm \in {"none", "continue"}, ps \in CellParas}

\* top_value / text / room_value, and klass
TextArgs == {<<>>, <<"R">>, <<"R", "nbsp", "R">>}
KlassArgs == {<<>>, <<"K">>}

CellInputs ==
    { [cells |-> cs, text |-> t, klass |-> k] :
        cs \in SeqsUpTo(CellSet, MaxCells), t \in TextArgs, k \in KlassArgs }

InitCells ==
    /\ InitSplitIdle
    /\ InitExpIdle
    /\ InitRenderIdle
    /\ InitRestIdle
    /\ fn = ""
    /\ arg \in CellInputs
    /\ res = <<>>

Apply(f, r) ==
    /\ fn = ""
    /\ fn' = f
    /\ res' = r
    /\ UNCHANGED <<arg, splitVars, expVars, renderVars, restVars>>

DoWriteCell ==
    /\ arg.cells # <<>>
    /\ Apply("write_cell_text", <<write_cell_text(arg.cells[1], arg.text)>>)

DoVmerge == Apply("vmerge_cells", vmerge_cells(arg.cells, arg.text))

DoReplaceRoom ==
    Apply("replace_room_in_row", replace_room_in_row(arg.cells, arg.text, arg.klass))

NextCells == DoWriteCell \/ DoVmerge \/ DoReplaceRoom

SpecCells == InitCells /\ [][NextCells]_vars

(***************************************************************************)
(* Properties of the splitters                                             *)
(***************************************************************************)
Last == calls[Len(calls)]
LastIs(op, exit) == calls # <<>> /\ Last.op = op /\ Last.exit = exit

\* 1-based block index of the table the splitter op works on in document b
\* (0 when it finds none)
FoundAt(op, b) ==
    IF op = "like" THEN find_caption_and_first_table5(b) + 1
    ELSE IF op = "docx"
         THEN (IF \E i \in TableIdxs(b) : looks_like_table5(b[i])
               THEN MinOf({i \in TableIdxs(b) : looks_like_table5(b[i])}) ELSE 0)
    ELSE find_table5_word(b)

IsHeaderRow(r) == r.c0 = "hdr"
HeaderOf(rows) == SubSeq(rows, 1, header_rows)
DataOf(rows) == SubSeq(rows, header_rows + 1, Len(rows))
NContinuations(b) == Cardinality({i \in 1..Len(b) : IsContinuation5(b[i])})

\* number of continuation fragments the heuristic splitter makes of d data rows
NParts(d) ==
    (d - first_page_data_rows + next_page_data_rows - 1) \div next_page_data_rows

\* C1: a Table 5 splitter run again on the document it has split leaves at
\* the guard that detects the continuation caption and changes nothing, so
\* the document after two runs is the document after one
C1_SecondRunIsNoOp ==
    (/\ Len(calls) = 2
     /\ calls[1].op = calls[2].op
     /\ calls[2].op \in {"like", "docx", "word"}
     /\ calls[1].exit = "split")
        => /\ calls[2].exit = "guard"
           /\ body = before

C1_Witness ==
    /\ Len(calls) = 2
    /\ calls[1].op = "like" /\ calls[2].op = "like"
    /\ calls[1].exit = "split" /\ calls[2].exit = "guard"
    /\ NContinuations(body) >= 2

C3_BreakCaptionFragment ==
    (calls # <<>> /\ Last.exit = "split" /\ Last.op \in {"like", "docx"})
        => LET ti == FoundAt(Last.op, before)
               n == IF Last.op = "like" THEN NParts(Len(DataOf(before[ti].rows))) ELSE 1
           IN  /\ \A k \in 1..n :
                    /\ body[ti + 3 * k - 2] = P("pb")
                    /\ body[ti + 3 * k - 1] = P("cont5")
                    /\ body[ti + 3 * k].k = "tbl"
               /\ body[ti].k = "tbl"
               /\ SubSeq(body, 1, ti - 1) = SubSeq(before, 1, ti - 1)
               /\ SubSeq(body, ti + 3 * n + 1, Len(body)) = SubSeq(before, ti + 1, Len(before))

C3_Witness ==
    /\ LastIs("like", "split")
    /\ NParts(Len(DataOf(before[FoundAt("like", before)].rows))) = 2
    /\ \E i \in TableIdxs(body) : body[i].t = "legend"

\* the rows of all tables in document order without the header rows, each
\* as <<table kind, row id>>
RECURSIVE DataRowsOf(_)
DataRowsOf(b) ==
    IF b = <<>> THEN <<>>
    ELSE SelectSeq([i \in 1..Len(Head(b).rows) |->
                       [t |-> Head(b).t, id |-> Head(b).rows[i].id,
                        h |-> IsHeaderRow(Head(b).rows[i])]],
                   LAMBDA r : ~r.h)
             \o DataRowsOf(Tail(b))

\* C4: the python-docx splitters keep the data rows: the non-header rows of
\* all fragments in document order are the data rows of the document before
\* the call, and a row found in two tables is a header row
C4_DataRowsKept ==
    (calls # <<>> /\ Last.op \in {"like", "docx", "results"})
        => /\ DataRowsOf(body) = DataRowsOf(before)
           /\ \A i, j \in TableIdxs(body) :
                (i # j /\ body[i].t = body[j].t)
                    => \A x \in 1..Len(body[i].rows), y \in 1..Len(body[j].rows) :
                          body[i].rows[x].id = body[j].rows[y].id
                              => IsHeaderRow(body[i].rows[x])

C4_Witness ==
    /\ LastIs("results", "split")
    /\ \E i \in TableIdxs(body) : body[i].t = "t11" /\ Len(body[i].rows) >= 2
    /\ Cardinality({i \in TableIdxs(body) : body[i].t = "t11"}) = 2

\* the first row of a table that is not a header row continues a merge
\* started in another table
StartsInsideMerge(rows) ==
    \E i \in 1..Len(rows) :
        /\ ~IsHeaderRow(rows[i])
        /\ \A j \in 1..i - 1 : IsHeaderRow(rows[j])
        /\ rows[i].vm = "continue"

\* C5: after the heuristic splitter has split the table filled by
\* insert_table5_into_doc no fragment starts inside a vertical merge
C5_NoMergeTorn ==
    LastIs("like", "split") => \A i \in TableIdxs(body) : ~StartsInsideMerge(body[i].rows)

\* C6: when the Word splitter returns False the document is as it was
C6_FalseLeavesDocument ==
    (calls # <<>> /\ Last.op = "word" /\ Last.ret = "False") => body = before

\* C7: a split leaves at least one data row in the first fragment and gives
\* at least one data row to the second
C7_SplitInsideData ==
    (calls # <<>> /\ Last.exit = "split" /\ Last.op \in {"like", "docx", "word"})
        => LET ti == FoundAt(Last.op, before)
           IN  /\ Len(body[ti].rows) >= header_rows + 1
               /\ \E i \in 1..Len(body[ti + 3].rows) : ~IsHeaderRow(body[ti + 3].rows[i])

\* C8: after a split by the Word splitter a legend table that is the next
\* table after the continuation table is separated from it by a paragraph
C8_ParagraphBeforeLegend ==
    LastIs("word", "split")
        => LET ci == FoundAt("word", before) + 3
               nx == get_first_table_after_pos(body, ci)
           IN  (nx # 0 /\ looks_like_legend_table(body[nx])) => nx > ci + 1

(***************************************************************************)
(* Properties of the row expanders                                         *)
(***************************************************************************)
\* the number of rows before the template row of table t as expander op
\* finds it
RowsBeforeTemplate(op, t) ==
    IF op = "equipment" THEN sample_idx_equipment(t)
    ELSE IF op = "rooms" THEN sample_idx_rooms(t)
    ELSE tmpl_row_idx(t)

Expanded == xop # "" /\ xret \in {"ok", "True"}

\* C9: after an expander has run with N records the table has the rows
\* that preceded the template row and N more
C9_HeaderRowsPlusN ==
    Expanded => Len(tbl) = RowsBeforeTemplate(xop, tbl0) + Len(recs)

\* C10: after process_equipment_table the n-th row below the header block
\* holds, in every cell that was @k in the template row, the k-th field of
\* record n, and no cell of the table holds one of @1..@4
C10_FieldByPlaceholder ==
    (Expanded /\ xop = "equipment")
        => LET si == sample_idx_equipment(tbl0)
               tpl == At(tbl0, si)
           IN  /\ \A n \in 1..Len(recs) : \A c \in 1..Len(tpl) :
                     tpl[c].kind = "at" => tbl[si + n][c] = values(recs[n])[tpl[c].k]
               /\ \A r \in 1..Len(tbl) : ~HasAt(tbl[r])

\* C11: after process_rooms_table or process_equipment_table has run with no
\* records the table still has a row at the template position, and that row
\* holds no placeholder token
C11_ZeroRecordsKeepRow ==
    (Expanded /\ xop \in {"rooms", "equipment"} /\ recs = <<>>)
        => LET ti == RowsBeforeTemplate(xop, tbl0)
           IN  /\ Len(tbl) > ti
               /\ ~HasAt(tbl[ti + 1])
               /\ ~HasHash(tbl[ti + 1])

(***************************************************************************)
(* Properties of the cell helpers                                          *)
(***************************************************************************)
HasToken(txt) == \E i \in 1..Len(txt) : txt[i] \in RoomTokens \cup KlassTokens

\* C12: after replace_room_in_row no cell of the row holds a placeholder
\* token, also when the room value or the class is the empty string
C12_NoTokenLeft ==
    fn = "replace_room_in_row"
        => \A c \in 1..Len(res) : ~HasToken(cell_text_all_runs(res[c]))

\* C13: after vmerge_cells over k >= 1 cells the first cell has merge state
\* restart and reads as the top value, every other cell has merge state
\* continue and reads as the empty text
C13_MergeBlock ==
    (fn = "vmerge_cells" /\ arg.cells # <<>>)
        => /\ Len(res) = Len(arg.cells)
           /\ res[1].vm = "restart"
           /\ cell_text_all_runs(res[1]) = arg.text
           /\ \A c \in 2..Len(res) :
                 res[c].vm = "continue" /\ cell_text_all_runs(res[c]) = <<>>

\* C14: cell_text_all_runs of a cell written by write_cell_text is the text
\* that was written
C14_WriteThenRead ==
    fn = "write_cell_text" => cell_text_all_runs(res[1]) = arg.text

(***************************************************************************)
(* Risk rows of Table 5 (risk_table5.py)                                   *)
(*                                                                         *)
(* A text is a sequence of atoms: the letters "x", "y", the capital "X",   *)
(* the word "test" ("Test" with a capital), digits "0".."3", the           *)
(* separators ";" and "nl", and "sp", "nbsp", "zw", ".", ",".              *)
(***************************************************************************)
MaxStr == 2
MaxSheetRows == 3

Range(s) == {s[i] : i \in 1..Len(s)}

Digits == {"0", "1", "2", "3"}

Lower(c) == IF c = "X" THEN "x" ELSE IF c = "Test" THEN "test" ELSE c

\* re.sub(r"\s+", " ", s)
RECURSIVE CollapseSpaces(_)
CollapseSpaces(s) ==
    IF s = <<>> THEN s
    ELSE IF Head(s) \in {"sp", "nl"}
         THEN IF Len(s) > 1 /\ s[2] \in {"sp", "nl"}
              THEN CollapseSpaces(Tail(s))
              ELSE <<"sp">> \o CollapseSpaces(Tail(s))
         ELSE <<Head(s)>> \o CollapseSpaces(Tail(s))

NbspToSp(s) == [i \in 1..Len(s) |-> IF s[i] = "nbsp" THEN "sp" ELSE s[i]]

norm_basic(s) ==
    LET IsVisible(c) == c # "zw"
        a == SelectSeq(NbspToSp(s), IsVisible)
        b == Strip(CollapseSpaces(a))
    IN  [i \in 1..Len(b) |-> Lower(b[i])]

match_key(s) ==
    LET IsKeyChar(c) == c \in {"x", "y", "test"} \cup Digits
    IN  SelectSeq(norm_basic(s), IsKeyChar)

\* Python "a in b" for strings
IsSubstr(a, b) ==
    \E i \in 0..(Len(b) - Len(a)) : SubSeq(b, i + 1, i + Len(a)) = a

\* the comparator with containment tested in one direction only
is_match_OneWay(selected_name, test_from_excel) ==
    LET sk == match_key(selected_name)
        tk == match_key(test_from_excel)
    IN  IF sk = <<>> \/ tk = <<>> THEN FALSE ELSE IsSubstr(sk, tk)

is_match(selected_name, test_from_excel) ==
    LET sk == match_key(selected_name)
        tk == match_key(test_from_excel)
    IN  IF sk = <<>> \/ tk = <<>> THEN FALSE
        ELSE IsSubstr(sk, tk) \/ IsSubstr(tk, sk)

(***************************************************************************)
(* Comparator specification: two bounded texts, one call                   *)
(***************************************************************************)
NameChars == {"x", "y", "X", "sp", "."}

Names == SeqsUpTo(NameChars, MaxStr)

InitMatch ==
    /\ InitSplitIdle
    /\ InitExpIdle
    /\ InitRenderIdle
    /\ InitRestIdle
    /\ fn = ""
    /\ arg \in [a : Names, b : Names]
    /\ res = <<>>

DoIsMatch == Apply("_is_match", <<is_match(arg.a, arg.b)>>)

DoMatchKey == Apply("_match_key", <<match_key(arg.a), match_key(arg.b)>>)

NextMatch == DoIsMatch \/ DoMatchKey

SpecMatch == InitMatch /\ [][NextMatch]_vars

(***************************************************************************)
(* Properties of the comparator                                            *)
(***************************************************************************)
\* C17: the comparator is symmetric: _is_match(a, b) = _is_match(b, a) for
\* all texts a and b, also when a comparison key is empty
C17_MatchSymmetric ==
    fn = "_is_match" => res[1] = is_match(arg.b, arg.a)

\* a match by proper containment of differently written names
C17_Witness ==
    /\ fn = "_is_match"
    /\ res[1] = TRUE
    /\ Len(match_key(arg.a)) < Len(match_key(arg.b))
    /\ Len(arg.a) = Len(arg.b)

(***************************************************************************)
(* get_risk_rows: filtering by the selected tests, then merging            *)
(*                                                                         *)
(* A spreadsheet row is a record of cell texts [risk, cause, letter,       *)
(* score, tests]; letter and score stand for the four letter / score       *)
(* pairs, which the code reads and compares in the same way.               *)
(***************************************************************************)
Spaces == {"sp", "nbsp", "nl"}

RECURSIVE SkipWhile(_, _, _)
SkipWhile(t, i, S) ==
    IF i <= Len(t) /\ t[i] \in S THEN SkipWhile(t, i + 1, S) ELSE i

Is(t, i, S) == i <= Len(t) /\ t[i] \in S

\* re.sub(r"^\s*\d+\s*\.\s*", "", t0)
StripNumber(t) ==
    LET a == SkipWhile(t, 1, Spaces)
        b == SkipWhile(t, a, Digits)
        c == SkipWhile(t, b, Spaces)
    IN  IF b > a /\ Is(t, c, {"."})
        THEN SubSeq(t, SkipWhile(t, c + 1, Spaces), Len(t))
        ELSE t

\* re.sub(r"^\s*тест\s*\d+(?:\.\d+)?\.?\s*", "", t0, flags=re.IGNORECASE)
StripTestNo(t) ==
    LET a == SkipWhile(t, 1, Spaces)
        b == SkipWhile(t, a + 1, Spaces)
        c == SkipWhile(t, b, Digits)
        d == IF Is(t, c, {"."}) /\ Is(t, c + 1, Digits)
             THEN SkipWhile(t, c + 1, Digits) ELSE c
        e == IF Is(t, d, {"."}) THEN d + 1 ELSE d
    IN  IF Is(t, a, {"test", "Test"}) /\ c > b
        THEN SubSeq(t, SkipWhile(t, e, Spaces), Len(t))
        ELSE t

\* Python s.strip(chars)
RECURSIVE StripSet(_, _)
StripSet(t, S) ==
    IF t = <<>> THEN t
    ELSE IF Head(t) \in S THEN StripSet(Tail(t), S)
    ELSE IF t[Len(t)] \in S THEN StripSet(SubSeq(t, 1, Len(t) - 1), S)
    ELSE t

StripWs(t) == StripSet(t, Spaces)

selected_tests_to_names(selected_tests) ==
    LET NonEmpty(t) == StripWs(t) # <<>>
        kept == SelectSeq(selected_tests, NonEmpty)
    IN  [i \in 1..Len(kept) |-> StripWs(StripTestNo(StripNumber(StripWs(kept[i]))))]

\* re.split(r"[\n;]+", src): the parts between the separators
RECURSIVE SplitParts(_, _)
SplitParts(src, cur) ==
    IF src = <<>> THEN <<cur>>
    ELSE IF Head(src) \in {"nl", ";"}
         THEN <<cur>> \o SplitParts(Tail(src), <<>>)
         ELSE SplitParts(Tail(src), Append(cur, Head(src)))

split_tests_cell(s) ==
    IF norm_basic(s) = <<>> THEN <<>>
    ELSE LET src == StripWs(NbspToSp(s))
             parts == SplitParts(src, <<>>)
             NonEmpty(p) == p # <<>>
         IN  SelectSeq([i \in 1..Len(parts) |-> StripSet(parts[i], {"sp", ","})], NonEmpty)

sval(v) == StripWs(v)

\* 2.0 -> 2
ival(v) ==
    LET s == StripWs(v)
        n == Len(s)
    IN  IF n >= 3 /\ s[n] = "0" /\ s[n - 1] = "."
           /\ \A i \in 1..(n - 2) : s[i] \in Digits
        THEN SubSeq(s, 1, n - 2) ELSE s

\* for t in ts: if t not in ex_tests: ex_tests.append(t)
RECURSIVE ExtendTests(_, _)
ExtendTests(ex_tests, ts) ==
    IF ts = <<>> THEN ex_tests
    ELSE ExtendTests(IF Head(ts) \in Range(ex_tests) THEN ex_tests
                     ELSE Append(ex_tests, Head(ts)), Tail(ts))

\* the tests of tests_list matched by one selected name, in cell order
MatchedBy(sname, tests_list) ==
    LET Hit(t) == is_match(sname, t)
    IN  SelectSeq(tests_list, Hit)

\* the loop over sel_names and tests_list (lines 183-187)
RECURSIVE MatchedTests(_, _, _)
MatchedTests(sel_names, tests_list, acc) ==
    IF sel_names = <<>> THEN acc
    ELSE MatchedTests(Tail(sel_names), tests_list,
                      ExtendTests(acc, MatchedBy(Head(sel_names), tests_list)))

OutRow(row, matched_tests) ==
    [risk |-> sval(row.risk), cause |-> sval(row.cause),
     letter |-> sval(row.letter), score |-> ival(row.score),
     tests |-> matched_tests]

\* one spreadsheet row: no row, or the row with its retained tests
RawRow(row, sel_names) ==
    LET tests_list == split_tests_cell(row.tests)
        matched_tests == IF sel_names # <<>>
                         THEN MatchedTests(sel_names, tests_list, <<>>)
                         ELSE tests_list
    IN  IF sval(row.risk) = <<>> /\ sval(row.cause) = <<>> /\ tests_list = <<>>
        THEN <<>>
        ELSE IF sel_names # <<>> /\ matched_tests = <<>> THEN <<>>
        ELSE <<OutRow(row, matched_tests)>>

RawRows(sheet, sel_names) ==
    Flatten([r \in 1..Len(sheet) |-> RawRow(sheet[r], sel_names)])

MergeKey(rr) ==
    <<match_key(rr.risk), match_key(rr.cause), rr.letter, rr.score>>



\* one step of the merge loop (lines 212-233)
MergeOne(merged, rr) ==
    LET hits == {i \in 1..Len(merged) : MergeKey(merged[i]) = MergeKey(rr)}
    IN  IF hits # {}
        THEN LET i == MinOf(hits)
             IN  [merged EXCEPT ![i].tests = ExtendTests(merged[i].tests, rr.tests)]
        ELSE Append(merged, rr)

RECURSIVE MergeAll(_, _)
MergeAll(raw_rows, merged) ==
    IF raw_rows = <<>> THEN merged
    ELSE MergeAll(Tail(raw_rows), MergeOne(merged, Head(raw_rows)))

\* sel_names of lines 154-155
SelNames(selected_tests) ==
    LET NonEmpty(n) == StripWs(n) # <<>>
    IN  SelectSeq(selected_tests_to_names(selected_tests), NonEmpty)

\* the rows before and after the merge
get_risk_rows(sheet, selected_tests) ==
    LET raw_rows == RawRows(sheet, SelNames(selected_tests))
    IN  [raw |-> raw_rows, out |-> MergeAll(raw_rows, <<>>)]

(***************************************************************************)
(* Risk rows specification: a bounded spreadsheet and a selection          *)
(***************************************************************************)
\* risk text and score of a row: the second is the first written with a
\* capital, a full stop and the score as a float; the third differs in score
RowKeys ==
    { <<<<"x">>, <<"2">>>>, <<<<"X", ".">>, <<"2", ".", "0">>>>, <<<<"x">>, <<"3">>>> }

\* tests cells: one name, two names, a name twice, none
TestsCells ==
    { <<"x">>, <<"y", ";", "sp", "x">>, <<"x", "nl", "x">>, <<>> }

BlankRow == [risk |-> <<>>, cause |-> <<>>, letter |-> <<>>, score |-> <<>>, tests |-> <<>>]

SheetRows ==
    { [risk |-> k[1], cause |-> <<"y">>, letter |-> <<"X">>, score |-> k[2], tests |-> c]
        : k \in RowKeys, c \in TestsCells } \cup {BlankRow}

\* titles as the window passes them: "1. Test 1.1 x", "y", "x",
\* "x y" (contains both names), a title that is only number and test
\* number, and a name no row has
Title(name) == <<"1", ".", "sp", "Test", "sp", "1", ".", "1">> \o name

Selections ==
    { <<>>,
      <<Title(<<"sp", "x">>)>>,
      <<<<"y">>, <<"x">>>>,
      <<<<"x">>, <<"y">>>>,
      <<<<"x", "sp", "y">>>>,
      <<Title(<<>>)>>,
      <<<<"y", "y">>>> }

InitRisk ==
    /\ InitSplitIdle
    /\ InitExpIdle
    /\ InitRenderIdle
    /\ InitRestIdle
    /\ fn = ""
    /\ arg \in [sheet : SeqsUpTo(SheetRows, MaxSheetRows), selected : Selections]
    /\ res = <<>>

DoGetRiskRows == Apply("get_risk_rows", get_risk_rows(arg.sheet, arg.selected))

DoSelectedNames == Apply("_selected_tests_to_names", selected_tests_to_names(arg.selected))

NextRisk == DoGetRiskRows \/ DoSelectedNames

SpecRisk == InitRisk /\ [][NextRisk]_vars

(***************************************************************************)
(* Properties of the risk rows                                             *)
(***************************************************************************)
NoDup(s) == \A i, j \in 1..Len(s) : i # j => s[i] # s[j]

RawKeyOf(r) == <<r.risk, r.cause, r.letter, r.score>>

\* the indexes of the rows that are the first of their key, in order
Firsts(raw) ==
    LET IsFirst(i) == \A j \in 1..(i - 1) : MergeKey(raw[j]) # MergeKey(raw[i])
    IN  SelectSeq([i \in 1..Len(raw) |-> i], IsFirst)

\* the tests of all rows with the key of row i, in first-seen order, each once
UnionOfGroup(raw, i) ==
    LET InGroup(r) == MergeKey(r) = MergeKey(raw[i])
        grp == SelectSeq(raw, InGroup)
    IN  ExtendTests(<<>>, Flatten([g \in 1..Len(grp) |-> grp[g].tests]))

MergedAsUnion(raw, out) ==
    LET firsts == Firsts(raw)
    IN  /\ Len(out) = Len(firsts)
        /\ \A p \in 1..Len(out) :
              /\ RawKeyOf(out[p]) = RawKeyOf(raw[firsts[p]])
              /\ out[p].tests = UnionOfGroup(raw, firsts[p])

\* C15: the returned list never holds two rows with an identical key; rows
\* with identical keys become one row at the position of the first of them,
\* and its tests are the union of the tests of the merged rows in first-seen
\* order without duplicates
C15_MergedRows ==
    fn = "get_risk_rows"
        => /\ \A i, j \in 1..Len(res.out) :
                i # j => RawKeyOf(res.out[i]) # RawKeyOf(res.out[j])
           /\ MergedAsUnion(res.raw, res.out)

\* C16: with a non-empty selection every returned row has retained at least
\* one test, each retained test matches a selected test and occurs once,
\* and the retained tests follow the order of the selection
C16_SelectedTestsOnly ==
    (fn = "get_risk_rows" /\ arg.selected # <<>>)
        => LET names == selected_tests_to_names(arg.selected)
               Sel(t) == {n \in 1..Len(names) : is_match(names[n], t)}
           IN  \A r \in 1..Len(res.out) :
                  LET ts == res.out[r].tests
                  IN  /\ ts # <<>>
                      /\ \A i \in 1..Len(ts) : Sel(ts[i]) # {}
                      /\ NoDup(ts)
                      /\ \A i, j \in 1..Len(ts) :
                            (i < j /\ Sel(ts[i]) # {} /\ Sel(ts[j]) # {})
                                => MinOf(Sel(ts[i])) <= MinOf(Sel(ts[j]))

(***************************************************************************)
(* _fill_test_112 (ui/main_window.py): filling the Test 11.2 table        *)
(*                                                                         *)
(* A row is [kind, cells]; kind is what the text tests of the code find    *)
(* in the row: "title" (test 11.2 in the first row), "results", "cols"     *)
(* (the column names), "sub", "spacer" (all cells empty), "data",          *)
(* "comment" (first cell starts with "комментар") or "other".  The cells   *)
(* of the "cols" row are the column names, "total" and "fact" among them.  *)
(***************************************************************************)
MaxData == 2
MaxRooms == 3

TRow(kind, cells) == [kind |-> kind, cells |-> cells]

\* first 0-based index of a row of the kinds, -1 for None
FirstOfKind(t, kinds, from0) ==
    LET hits == {i \in from0..(Len(t) - 1) : At(t, i).kind \in kinds}
    IN  IF hits = {} THEN -1 ELSE MinOf(hits)

hdr_cols_row_idx(t) ==
    LET i == FirstOfKind(t, {"results"}, 0)
        after == IF i >= 0 /\ i + 1 < Len(t) THEN i + 1 ELSE -1
    IN  IF after >= 0 THEN after ELSE FirstOfKind(t, {"cols"}, 0)

find_col(cells, name) ==
    LET hits == {ci \in 0..(Len(cells) - 1) : At(cells, ci) = name}
    IN  IF hits = {} THEN -1 ELSE MinOf(hits)

RECURSIVE SkipSpacers(_, _)
SkipSpacers(t, i) ==
    IF i < Len(t) /\ At(t, i).kind = "spacer" THEN SkipSpacers(t, i + 1) ELSE i

data_start(t) == SkipSpacers(t, hdr_cols_row_idx(t) + 2)

data_end(t) ==
    LET i == FirstOfKind(t, {"comment"}, data_start(t))
    IN  IF i >= 0 THEN i ELSE Len(t)

\* t112._tbl.append(deepcopy(sample_tr)), n times
AppendClones(t, sample_tr, n) == t \o [i \in 1..n |-> sample_tr]

PadRows(t, need) ==
    LET have == data_end(t) - data_start(t)
    IN  IF need > have
        THEN AppendClones(t, At(t, data_end(t) - 1), need - have)
        ELSE t

SetCell(row, ci, text) ==
    IF ci >= 0 /\ ci < Len(row.cells) /\ text # ""
    THEN [row EXCEPT !.cells[ci + 1] = text]
    ELSE row

\* the filling loop: room idx goes to row data_start + idx
FillRows(t, rooms, ds, col_total, col_fact) ==
    [r \in 1..Len(t) |->
        LET idx == (r - 1) - ds
        IN  IF idx >= 0 /\ idx < Len(rooms)
            THEN SetCell(SetCell(t[r], col_total, At(rooms, idx).total_flow),
                         col_fact, At(rooms, idx).exchange_actual)
            ELSE t[r]]

Fillable(t) ==
    /\ t # <<>>
    /\ t[1].kind = "title"
    /\ hdr_cols_row_idx(t) >= 0
    /\ \/ find_col(At(t, hdr_cols_row_idx(t)).cells, "total") >= 0
       \/ find_col(At(t, hdr_cols_row_idx(t)).cells, "fact") >= 0
    /\ data_end(t) > data_start(t)

fill_test_112(t, rooms) ==
    IF ~Fillable(t) THEN t
    ELSE LET cols_row == At(t, hdr_cols_row_idx(t))
         IN  FillRows(PadRows(t, Len(rooms)), rooms, data_start(t),
                      find_col(cols_row.cells, "total"),
                      find_col(cols_row.cells, "fact"))

(***************************************************************************)
(* Test 11.2 specification: a bounded skeleton and a list of rooms         *)
(***************************************************************************)
ColsRows == { <<"num", "total", "fact">>, <<"num", "fact">>, <<"num">> }

DataRow(n) == TRow("data", <<ToString(n), "tpl", "tpl">>)

\* title, "results", column names, second header row, an optional spacer,
\* the data rows, then nothing, the comments row, or the comments row and
\* a row after it
Skeletons ==
    { <<TRow("title", <<"t">>), TRow("results", <<"r">>), TRow("cols", cols),
        TRow("sub", <<"s", "s", "s">>)>>
        \o spacer \o [i \in 1..n |-> DataRow(i)] \o tail
        : cols \in ColsRows,
          spacer \in {<<>>, <<TRow("spacer", <<"", "", "">>)>>},
          n \in 0..MaxData,
          tail \in {<<>>, <<TRow("comment", <<"c", "c", "c">>)>>,
                    <<TRow("comment", <<"c", "c", "c">>), TRow("other", <<"o", "o", "o">>)>>} }
    \cup { <<TRow("other", <<"o">>), TRow("data", <<"tpl", "tpl", "tpl">>)>> }

\* room i with its two values, each possibly empty
RoomOf(i, hasTotal, hasFact) ==
    [total_flow |-> IF hasTotal THEN "T" \o ToString(i) ELSE "",
     exchange_actual |-> IF hasFact THEN "F" \o ToString(i) ELSE ""]

RoomLists ==
    UNION { { [i \in 1..n |-> RoomOf(i, i \notin noT, i \notin noF)]
                : noT \in {{}, {1}}, noF \in {{}, {n}} } : n \in 0..MaxRooms }

InitFill112 ==
    /\ InitSplitIdle
    /\ InitExpIdle
    /\ InitRenderIdle
    /\ InitRestIdle
    /\ fn = ""
    /\ arg \in [t : Skeletons, rooms : RoomLists]
    /\ res = <<>>

DoFill112 == Apply("_fill_test_112", fill_test_112(arg.t, arg.rooms))

DoFindData ==
    /\ Fillable(arg.t)
    /\ Apply("data_rows", <<data_start(arg.t), data_end(arg.t)>>)

NextFill112 == DoFill112 \/ DoFindData

SpecFill112 == InitFill112 /\ [][NextFill112]_vars

(***************************************************************************)
(* Properties of _fill_test_112                                            *)
(***************************************************************************)
\* the call padded the table: more rooms than data rows
Padded ==
    /\ fn = "_fill_test_112"
    /\ Fillable(arg.t)
    /\ Len(arg.rooms) > data_end(arg.t) - data_start(arg.t)

\* the row without what the filling wrote into the two columns
RoomWritten(row0, room, cols) ==
    SetCell(SetCell(row0, find_col(cols, "total"), room.total_flow),
            find_col(cols, "fact"), room.exchange_actual)

\* C18: with more rooms than data rows, afterwards the data region is need
\* consecutive rows before the comments row, the added rows are copies of
\* the last original data row, room i is written into the i-th row of the
\* region and no other row is written
C18_PaddedDataRegion ==
    Padded
        => LET t == arg.t
               ds == data_start(t)
               de == data_end(t)
               need == Len(arg.rooms)
               cols == At(t, hdr_cols_row_idx(t)).cells
           IN  /\ Len(res) = Len(t) + need - (de - ds)
               /\ \A i \in 0..(need - 1) :
                     At(res, ds + i) =
                        RoomWritten(IF ds + i < de THEN At(t, ds + i) ELSE At(t, de - 1),
                                    At(arg.rooms, i), cols)
               /\ Slice(res, 0, ds) = Slice(t, 0, ds)
               /\ SliceFrom(res, ds + need) = SliceFrom(t, de)

(***************************************************************************)
(* The render pass: RenderWorker.run and MainWindow.on_finished            *)
(*                                                                         *)
(* worker = [job, pc, log, missing, saved, msg, emitted, tests]: the steps *)
(* of run() are taken one at a time, log lists the steps that ran.  A      *)
(* Python value that may be None is [isNone, items].                       *)
(***************************************************************************)
MaxSel == 2

PyNone == [isNone |-> TRUE, items |-> <<>>]
PyList(l) == [isNone |-> FALSE, items |-> l]

\* "if missing:"
Truthy(v) == ~v.isNone /\ v.items # <<>>

Titles == {"A", "B"}

\* find_table_obj_by_title raises for a title the test bank does not have;
\* the function collects the titles into its local list and ends without a
\* return statement.  elems are the tables put at the placeholder, numbers
\* the x of the "11.x" written into the title of each of them.
insert_test_tables(bank, selected_tests) ==
    LET Found(title) == title \in bank
        NotFound(title) == title \notin bank
        IsFoundAt(idx) == selected_tests[idx] \in bank
    IN  [elems |-> SelectSeq(selected_tests, Found),
         numbers |-> SelectSeq([idx \in 1..Len(selected_tests) |-> idx], IsFoundAt),
         missing |-> SelectSeq(selected_tests, NotFound),
         ret |-> PyNone]

\* the message of the ValueError of process_rooms_table, "" when it returns
rooms_error(t) ==
    IF t = <<>> \/ Head(t) = <<>> \/ Head(t)[1] # HeaderName(1)
    THEN "rooms table not found (header)"
    ELSE IF process_rooms_table(t, <<>>).ret = "raise"
         THEN "rooms table: placeholder row not found"
         ELSE ""

\* the message of the ValueError of process_equipment_table
equipment_error(t) ==
    IF process_equipment_table(t, <<>>).ret = "raise"
    THEN "equipment table not found (no @1..@4)"
    ELSE ""

Sig(success, message, missing) ==
    [success |-> success, message |-> message, missing |-> missing]

\* a RenderWorker that has not run yet; emitted lists its finished signals,
\* tests the test tables of its document as [title, number]
NewWorker(job) ==
    [job |-> job, pc |-> "start", log |-> <<>>, missing |-> PyList(<<>>),
     saved |-> FALSE, msg |-> "", emitted |-> <<>>, tests |-> <<>>]

\* an exception that is only logged: the pass goes on to its end
Raise_Logged(w, message) == [w EXCEPT !.pc = "emit", !.msg = message]

\* an exception inside the try block of run(): control goes to the handler
Raise(w, message) == [w EXCEPT !.pc = "except", !.msg = message]

Ran(w, step, next) == [w EXCEPT !.pc = next, !.log = Append(w.log, step)]

\* a best-effort step whose exception reaches the handler of run()
Caught_Escapes(w, step, next) == Raise(w, step)

\* a best-effort step that raised: its own handler logs a warning
Caught(w, step, next) == Ran(w, step, next)

\* the rendered protocol: its rooms table and its equipment table
RenderRoomsTables ==
    { <<<<HeaderName(1), HashTok(2), Txt(3)>>, <<HashTok(1), HashTok(2), HashTok(10)>>>> }
        \cup BareTables

RenderEqTables == { <<<<AtTok(1), AtTok(2), AtTok(3), AtTok(4)>>>>, <<TextRow>> }

Jobs ==
    [rooms_tbl : RenderRoomsTables, eq_tbl : RenderEqTables,
     selected : SeqsUpTo(Titles, MaxSel), bank : SUBSET Titles,
     files_ok : BOOLEAN]

\* the window with its inputs chosen, before the render button is pressed
InitRender ==
    /\ InitSplitIdle
    /\ InitExpIdle
    /\ InitPureIdle
    /\ InitRestIdle
    /\ \E job \in Jobs : worker = [NewWorker(job) EXCEPT !.pc = "idle"]
    /\ signals = <<>>
    /\ window = [batch_modes |-> <<>>, boxes |-> <<>>, enabled |-> TRUE,
                 handled |-> <<>>]

Box(kind, text) == [kind |-> kind, text |-> text]

\* _start_single_render: it returns early behind a critical box when the
\* tests or the equipment cannot be loaded or a path is missing; otherwise
\* it disables the window and starts a worker
start_single_render(win, w, startable) ==
    IF startable
    THEN [window |-> [win EXCEPT !.enabled = FALSE], worker |-> NewWorker(w.job)]
    ELSE [window |-> [win EXCEPT !.boxes = Append(win.boxes, Box("critical", "not started"))],
          worker |-> w]

\* start_render: single mode, or the batch "OQ и PQ" that starts with OQ;
\* boxes are those shown since this press, handled the signals of the
\* workers of the last press that started one
StartRender ==
    /\ window.enabled
    /\ worker.pc \in {"idle", "done"}
    /\ signals = <<>>
    /\ \E batch \in {<<>>, <<"PQ">>}, startable \in BOOLEAN :
          LET win == [window EXCEPT !.batch_modes = batch, !.boxes = <<>>,
                         !.handled = IF startable THEN <<>> ELSE window.handled]
              r == start_single_render(win, worker, startable)
          IN  /\ window' = r.window
              /\ worker' = r.worker
    /\ UNCHANGED <<signals, splitVars, expVars, pureVars, restVars>>

\* steps 0-7: validation of the files, context, rendering of the template
StepPrepare ==
    /\ worker.pc = "start"
    /\ worker' = IF worker.job.files_ok THEN Ran(worker, "prepare", "rooms")
                 ELSE Raise(worker, "file not found")
    /\ UNCHANGED <<signals, window, splitVars, expVars, pureVars, restVars>>

StepRooms ==
    /\ worker.pc = "rooms"
    /\ worker' = IF rooms_error(worker.job.rooms_tbl) # ""
                 THEN Raise(worker, rooms_error(worker.job.rooms_tbl))
                 ELSE Ran(worker, "rooms", "equipment")
    /\ UNCHANGED <<signals, window, splitVars, expVars, pureVars, restVars>>

StepEquipment ==
    /\ worker.pc = "equipment"
    /\ worker' = IF equipment_error(worker.job.eq_tbl) # ""
                 THEN Raise(worker, equipment_error(worker.job.eq_tbl))
                 ELSE Ran(worker, "equipment", "tests")
    /\ UNCHANGED <<signals, window, splitVars, expVars, pureVars, restVars>>

\* missing = table_processor.insert_test_tables(...)
StepTests ==
    /\ worker.pc = "tests"
    /\ LET r == insert_test_tables(worker.job.bank, worker.job.selected)
       IN  worker' = [Ran(worker, "tests", "table5") EXCEPT
                         !.missing = r.ret,
                         !.tests = [i \in 1..Len(r.elems) |->
                                       [title |-> r.elems[i], number |-> r.numbers[i]]]]
    /\ UNCHANGED <<signals, window, splitVars, expVars, pureVars, restVars>>

\* Table 5: an exception is logged as a warning and the pass goes on
StepTable5 ==
    /\ worker.pc = "table5"
    /\ \E ok \in BOOLEAN :
          worker' = IF ok THEN Ran(worker, "table5", "post")
                    ELSE Caught(worker, "table5 failed", "post")
    /\ UNCHANGED <<signals, window, splitVars, expVars, pureVars, restVars>>

\* results tables, Test 11.2, fonts
StepPost ==
    /\ worker.pc = "post"
    /\ worker' = Ran(worker, "post", "save")
    /\ UNCHANGED <<signals, window, splitVars, expVars, pureVars, restVars>>

\* doc.save(self.out_path)
StepSave ==
    /\ worker.pc = "save"
    /\ worker' = [Ran(worker, "save", "word") EXCEPT !.saved = TRUE]
    /\ UNCHANGED <<signals, window, splitVars, expVars, pureVars, restVars>>

\* update_fields_with_word: it returns when pywin32 is missing, and an
\* exception of the Word automation is logged by run() as a warning
StepWord ==
    /\ worker.pc = "word"
    /\ \E outcome \in {"word", "word unavailable", "word failed"} :
          worker' = IF outcome = "word failed"
                    THEN Caught(worker, outcome, "report")
                    ELSE Ran(worker, outcome, "report")
    /\ UNCHANGED <<signals, window, splitVars, expVars, pureVars, restVars>>

\* the report pass: not requested, rendered and saved, or failing
StepReport ==
    /\ worker.pc = "report"
    /\ \E outcome \in {"no report", "report", "raise"} :
          worker' = IF outcome = "raise" THEN Raise(worker, "report not rendered")
                    ELSE Ran(worker, outcome, "emit")
    /\ UNCHANGED <<signals, window, splitVars, expVars, pureVars, restVars>>

\* self.finished.emit(True, msg, missing); missing is None here, which the
\* binding delivers as a value that is false in "if missing:"
EmitFinished ==
    /\ worker.pc = "emit"
    /\ worker' = [worker EXCEPT !.pc = "done",
                                !.emitted = Append(worker.emitted, TRUE)]
    /\ signals' = Append(signals, Sig(TRUE, "saved", worker.missing))
    /\ UNCHANGED <<window, splitVars, expVars, pureVars, restVars>>

\* a handler that ends the run without a signal
EmitFailed_Silent ==
    /\ worker.pc = "except"
    /\ worker' = [worker EXCEPT !.pc = "done"]
    /\ UNCHANGED <<signals, window, splitVars, expVars, pureVars, restVars>>

\* except Exception as e: self.finished.emit(False, str(e), [])
EmitFailed ==
    /\ worker.pc = "except"
    /\ worker' = [worker EXCEPT !.pc = "done",
                                !.emitted = Append(worker.emitted, FALSE)]
    /\ signals' = Append(signals, Sig(FALSE, worker.msg, PyList(<<>>)))
    /\ UNCHANGED <<window, splitVars, expVars, pureVars, restVars>>

\* the boxes on_finished shows for a signal
BoxesFor(sig, inBatch) ==
    IF sig.success
    THEN (IF Truthy(sig.missing) THEN <<Box("warning", sig.missing.items)>> ELSE <<>>)
            \o (IF inBatch THEN <<>> ELSE <<Box("information", sig.message)>>)
    ELSE <<Box("critical", sig.message)>>

\* the window after on_finished has shown its boxes, before a next render
\* of the batch is started
Finished(win, sig) ==
    LET inBatch == win.batch_modes # <<>>
    IN  [batch_modes |-> IF inBatch /\ sig.success THEN Tail(win.batch_modes) ELSE <<>>,
         boxes |-> win.boxes \o BoxesFor(sig, inBatch),
         enabled |-> IF inBatch /\ sig.success THEN win.enabled ELSE TRUE,
         handled |-> Append(win.handled, sig)]

\* MainWindow.on_finished; in a batch a success starts the next render
OnFinished ==
    /\ signals # <<>>
    /\ signals' = Tail(signals)
    /\ IF window.batch_modes # <<>> /\ Head(signals).success
       THEN \E startable \in BOOLEAN :
               LET r == start_single_render(Finished(window, Head(signals)),
                                            worker, startable)
               IN  /\ window' = r.window
                   /\ worker' = r.worker
       ELSE /\ window' = Finished(window, Head(signals))
            /\ UNCHANGED worker
    /\ UNCHANGED <<splitVars, expVars, pureVars, restVars>>

NextRender ==
    \/ StartRender
    \/ StepPrepare \/ StepRooms \/ StepEquipment \/ StepTests \/ StepTable5
    \/ StepPost \/ StepSave \/ StepWord \/ StepReport
    \/ EmitFinished \/ EmitFailed
    \/ OnFinished

SpecRender == InitRender /\ [][NextRender]_vars

(***************************************************************************)
(* Properties of the render pass                                           *)
(***************************************************************************)
\* the selected titles the test bank does not have
NotFoundTitles ==
    insert_test_tables(worker.job.bank, worker.job.selected).missing

\* nothing but the test tables can fail in this job
CleanJob ==
    /\ worker.job.files_ok
    /\ rooms_error(worker.job.rooms_tbl) = ""
    /\ equipment_error(worker.job.eq_tbl) = ""

\* C19: the selected tests that are not found are what the worker passes
\* with success=True to finished and what on_finished shows as a warning:
\* the render finishes successfully and reports exactly those titles
C19_MissingReported ==
    CleanJob
        => /\ \A i \in 1..Len(signals) :
                 /\ signals[i].success
                 /\ signals[i].missing.items = NotFoundTitles
           /\ \A h \in 1..Len(window.handled) :
                 /\ window.handled[h].success
                 /\ window.handled[h].missing.items = NotFoundTitles
                 /\ NotFoundTitles # <<>>
                       => \E b \in 1..Len(window.boxes) :
                             window.boxes[b] = Box("warning", NotFoundTitles)

\* the anchor the job lacks: "" when the rooms table and the equipment
\* table are both there
MissingAnchor ==
    IF rooms_error(worker.job.rooms_tbl) # "" THEN rooms_error(worker.job.rooms_tbl)
    ELSE equipment_error(worker.job.eq_tbl)

LaterSteps ==
    {"tests", "table5", "table5 failed", "post", "save", "word", "word unavailable",
     "word failed", "no report", "report"}

\* C20: when the rooms table or the equipment table cannot be located the
\* pass is aborted: no later step runs, the document is not saved, and
\* finished is emitted with success=False and the message of the anchor
C20_AbortOnMissingAnchor ==
    (worker.job.files_ok /\ MissingAnchor # "")
        => /\ ~worker.saved
           /\ Range(worker.log) \cap LaterSteps = {}
           /\ rooms_error(worker.job.rooms_tbl) # "" => "equipment" \notin Range(worker.log)
           /\ \A i \in 1..Len(signals) :
                 signals[i] = Sig(FALSE, MissingAnchor, PyList(<<>>))
           /\ \A h \in 1..Len(window.handled) :
                 window.handled[h] = Sig(FALSE, MissingAnchor, PyList(<<>>))
           /\ worker.pc = "done" => Len(signals) + Len(window.handled) = 1

\* the equipment table is missing, the pass has ended and the window has
\* shown the message
C20_Witness ==
    /\ worker.job.files_ok
    /\ rooms_error(worker.job.rooms_tbl) = ""
    /\ equipment_error(worker.job.eq_tbl) # ""
    /\ worker.pc = "done"
    /\ "rooms" \in Range(worker.log)
    /\ window.boxes = <<Box("critical", MissingAnchor)>>

\* the entries a best-effort step leaves in the log when it did not do its work
BestEffortFailures == {"table5 failed", "word failed", "word unavailable"}

\* C21: a failure of a best-effort step (Table 5, the Word post-processing)
\* never fails the generation: it is never the exception of the pass and
\* never the message of a signal, the steps after it still run, the saved
\* document stays saved, and a pass with no other failure emits
\* finished(True, ...).
C21_BestEffortNeverFails ==
    /\ worker.msg \notin BestEffortFailures
    /\ \A i \in 1..Len(signals) : signals[i].message \notin BestEffortFailures
    /\ \A h \in 1..Len(window.handled) :
          window.handled[h].message \notin BestEffortFailures
    /\ ("table5 failed" \in Range(worker.log) /\ worker.pc \notin {"post", "save"})
          => ({"post", "save"} \subseteq Range(worker.log) /\ worker.saved)
    /\ (Range(worker.log) \cap {"word failed", "word unavailable"} # {})
          => /\ worker.saved
             /\ worker.pc \in {"report", "emit", "except", "done"}
             /\ (worker.pc \in {"emit", "done"} /\ worker.msg = "")
                   => (Range(worker.log) \cap {"report", "no report"} # {})
    /\ (Range(worker.log) \cap BestEffortFailures # {} /\ worker.pc = "done"
            /\ worker.msg = "")
          => worker.emitted = <<TRUE>>

\* Table 5 and the Word step both failed, the pass ended and the window
\* has handled its success
C21_Witness ==
    /\ {"table5 failed", "word failed"} \subseteq Range(worker.log)
    /\ worker.pc = "done"
    /\ worker.saved
    /\ worker.emitted = <<TRUE>>
    /\ window.handled # <<>>
    /\ window.handled[Len(window.handled)].success

\* one step of a worker that has been started and has not ended
WorkerStep ==
    \/ StepPrepare \/ StepRooms \/ StepEquipment \/ StepTests \/ StepTable5
    \/ StepPost \/ StepSave \/ StepWord \/ StepReport
    \/ EmitFinished \/ EmitFailed

\* the signal a worker that has ended must have sent
SignalOf(w) ==
    IF w.msg = "" THEN Sig(TRUE, "saved", w.missing)
    ELSE Sig(FALSE, w.msg, PyList(<<>>))

\* C23: every execution of run() emits finished exactly once: nothing is
\* emitted before the end, a run that has not ended can always take a step,
\* a run that has ended has emitted one signal, which is a success exactly
\* when no exception escaped a step (and then every step up to the report
\* has run) and otherwise carries the text of the exception.
C23_FinishedOnce ==
    /\ worker.pc # "done" => worker.emitted = <<>>
    /\ worker.pc \notin {"idle", "done"} => ENABLED WorkerStep
    /\ worker.pc = "done"
          => /\ Len(worker.emitted) = 1
             /\ worker.emitted[1] <=> (worker.msg = "")
             /\ worker.emitted[1]
                   => /\ {"prepare", "rooms", "equipment", "tests", "post", "save"}
                            \subseteq Range(worker.log)
                      /\ Range(worker.log) \cap {"report", "no report"} # {}
             /\ signals # <<>> => signals = <<SignalOf(worker)>>
             /\ signals = <<>>
                   => /\ window.handled # <<>>
                      /\ window.handled[Len(window.handled)] = SignalOf(worker)

\* a run that failed in the report pass, after the document was saved, has
\* ended and its only signal is the failure with the text of the exception
C23_Witness ==
    /\ worker.pc = "done"
    /\ worker.saved
    /\ worker.emitted = <<FALSE>>
    /\ signals = <<Sig(FALSE, "report not rendered", PyList(<<>>))>>

\* no worker is running, no signal is waiting to be handled
Quiescent == worker.pc \in {"idle", "done"} /\ signals = <<>>

\* C27: once no RenderWorker is running and none is about to be started
\* the window is enabled again, in single mode and in the batch, also when
\* the OQ render succeeded and the start of the PQ render returned early.
C27_WindowReenabled == Quiescent => window.enabled

(***************************************************************************)
(* Temporary documents (file_utils.temp_docx)                              *)
(*                                                                         *)
(* temps = [stack, files, made, exc, raised]: stack holds the paths of the *)
(* with-blocks that are entered, innermost last (run() nests three of      *)
(* them), files the temporary files that exist, made the number created,   *)
(* exc the exception that is propagating ("" for none) and raised the one  *)
(* that was raised inside a block.                                         *)
(***************************************************************************)
MaxTemps == 3

BlockExceptions == {"ValueError", "OSError"}

\* the finally clause: f.close(); os.remove(f.name), with an OSError of
\* either call caught and passed over
temp_docx_cleanup(files, path, outcome) ==
    IF outcome = "removed" THEN files \ {path} ELSE files

CleanupOutcomes == {"removed", "close raised OSError", "remove raised OSError"}

InitTemps ==
    /\ InitSplitIdle
    /\ InitExpIdle
    /\ InitPureIdle
    /\ InitRenderIdle
    /\ temps = [stack |-> <<>>, files |-> {}, made |-> 0, exc |-> "", raised |-> ""]
    /\ t2 = <<>>
    /\ t11 = <<>>

\* with temp_docx() as tmp: NamedTemporaryFile(delete=False) creates the file
EnterTemp ==
    /\ temps.exc = ""
    /\ temps.made < MaxTemps
    /\ temps' = [temps EXCEPT !.made = temps.made + 1,
                              !.files = temps.files \cup {temps.made + 1},
                              !.stack = Append(temps.stack, temps.made + 1)]
    /\ UNCHANGED <<splitVars, expVars, pureVars, renderVars, t2, t11>>

\* a statement of the innermost block raises
BlockRaises ==
    /\ temps.stack # <<>>
    /\ temps.exc = ""
    /\ \E e \in BlockExceptions : temps' = [temps EXCEPT !.exc = e, !.raised = e]
    /\ UNCHANGED <<splitVars, expVars, pureVars, renderVars, t2, t11>>

\* the innermost block is left, at its end or by the exception
ExitTemp ==
    /\ temps.stack # <<>>
    /\ \E outcome \in CleanupOutcomes :
          temps' = [temps EXCEPT
                       !.files = temp_docx_cleanup(temps.files,
                                     temps.stack[Len(temps.stack)], outcome),
                       !.stack = SubSeq(temps.stack, 1, Len(temps.stack) - 1)]
    /\ UNCHANGED <<splitVars, expVars, pureVars, renderVars, t2, t11>>

NextTemps == EnterTemp \/ BlockRaises \/ ExitTemp

SpecTemps == InitTemps /\ [][NextTemps]_vars

\* C22: after a with-block of temp_docx is left, normally or by an
\* exception, its temporary file no longer exists, and an exception raised
\* inside the block propagates unchanged.
C22_TempRemoved ==
    /\ \A path \in 1..temps.made :
          path \notin Range(temps.stack) => path \notin temps.files
    /\ temps.exc = temps.raised

(***************************************************************************)
(* Totals of Test 11 (table_processor.extract_total_flows_from_test11)     *)
(*                                                                         *)
(* The flow table has one block of rows per room; the cell of the total    *)
(* spans the block as a vertical merge.  python-docx gives for every row   *)
(* of a merge the cell at its top, so the column reads the total of the    *)
(* room once per row of its block.                                         *)
(***************************************************************************)
MaxFlowRooms == 3
MaxBlockRows == 2

FlowTexts == { <<"1">>, <<"2">>, <<"1", ",", "2">>, <<"sp", "1">> }

FlowRoom == [total : FlowTexts, rows : 1..MaxBlockRows]

\* the texts r.cells[fact_sum_col].text of the data rows, top to bottom
ColumnTexts(rooms) ==
    Flatten([i \in 1..Len(rooms) |-> [j \in 1..rooms[i].rows |-> rooms[i].total]])

\* norm: white space collapsed and stripped, lower case
flow_norm(s) ==
    LET b == Strip(CollapseSpaces(NbspToSp(s)))
    IN  [i \in 1..Len(b) |-> Lower(b[i])]

\* re.sub(r"[^\d,.\-]", "", t).replace(",", ".")
flow_num(t) ==
    LET IsNum(c) == c \in Digits \cup {",", ".", "-"}
        kept == SelectSeq(t, IsNum)
    IN  [i \in 1..Len(kept) |-> IF kept[i] = "," THEN "." ELSE kept[i]]

\* Decimal(num) accepts the text
IsDecimal(n) ==
    /\ \E i \in 1..Len(n) : n[i] \in Digits
    /\ Cardinality({i \in 1..Len(n) : n[i] = "."}) <= 1
    /\ \A i \in 1..Len(n) : n[i] = "-" => i = 1

\* the loop over tbl.rows[1:] from its i-th text on
RECURSIVE ScanFlows(_, _, _, _)
ScanFlows(texts, i, last_seen, vals) ==
    IF i > Len(texts) THEN vals
    ELSE LET t == flow_norm(texts[i])
         IN  IF t # <<>> /\ t # last_seen
             THEN ScanFlows(texts, i + 1, t,
                            IF IsDecimal(flow_num(t)) THEN Append(vals, flow_num(t))
                            ELSE vals)
             ELSE ScanFlows(texts, i + 1, last_seen, vals)

\* last_seen starts as None, which no text equals
extract_total_flows_from_test11(rooms) ==
    ScanFlows(ColumnTexts(rooms), 1, <<"None">>, <<>>)

\* run(): the i-th value becomes the total_flow of the i-th room; a room
\* without a value falls back to its design airflow
assign_total_flows(rooms, total_flows) ==
    [i \in 1..Len(rooms) |->
        IF i <= Len(total_flows) THEN [from |-> "measured", val |-> total_flows[i]]
        ELSE [from |-> "airflow", val |-> <<>>]]

InitFlows ==
    /\ InitSplitIdle
    /\ InitExpIdle
    /\ InitRenderIdle
    /\ InitRestIdle
    /\ fn = ""
    /\ arg \in SeqsUpTo(FlowRoom, MaxFlowRooms)
    /\ res = <<>>

DoExtractFlows ==
    Apply("extract_total_flows_from_test11", extract_total_flows_from_test11(arg))

DoAssignFlows ==
    Apply("total_flow", assign_total_flows(arg, extract_total_flows_from_test11(arg)))

NextFlows == DoExtractFlows \/ DoAssignFlows

SpecFlows == InitFlows /\ [][NextFlows]_vars

\* the totals of the rooms as numbers, in document order
RoomTotals(rooms) == [i \in 1..Len(rooms) |-> flow_num(flow_norm(rooms[i].total))]

\* C24: for a flow table with R rooms, one vertical-merge block each,
\* extract_total_flows_from_test11 returns exactly R values, the i-th being
\* the total of the i-th room, also when adjacent rooms have the same
\* total, and RenderWorker assigns each room its own total.
C24_FlowPerRoom ==
    /\ fn = "extract_total_flows_from_test11" => res = RoomTotals(arg)
    /\ fn = "total_flow"
          => res = [i \in 1..Len(arg) |-> [from |-> "measured", val |-> RoomTotals(arg)[i]]]

(***************************************************************************)
(* Blocks of measurement points (table_processor.process_test_results_     *)
(* tables)                                                                 *)
(*                                                                         *)
(* The rows after the results header, numbered from 1.  A row is           *)
(* [c0, pt, short]: the text of its first cell, the text of its cell in    *)
(* the point column, and whether it has too few cells to have one.         *)
(***************************************************************************)
MaxResRows == 4

PointNone == -1

ResRow(c0, pt, short) == [c0 |-> c0, pt |-> pt, short |-> short]

\* points 1 and 2, a marked point 1, the average row, an empty row, the
\* comments row and a row that ends before the point column
ResRows ==
    { ResRow(<<>>, <<"1">>, FALSE), ResRow(<<>>, <<"2">>, FALSE),
      ResRow(<<>>, <<"1", "x">>, FALSE), ResRow(<<>>, <<"Test">>, FALSE),
      ResRow(<<>>, <<>>, FALSE), ResRow(<<"COMMENTS">>, <<>>, FALSE),
      ResRow(<<>>, <<>>, TRUE) }

DigitVal(c) == CHOOSE n \in 0..3 : ToString(n) = c

\* int of the digits of t from position i on, given the value so far
RECURSIVE DigitRun(_, _, _)
DigitRun(t, i, acc) ==
    IF i <= Len(t) /\ t[i] \in Digits
    THEN DigitRun(t, i + 1, 10 * acc + DigitVal(t[i]))
    ELSE acc

\* re.search(r"\d+", t): the first group of digits, None without one
get_point_number(t) ==
    LET at == {i \in 1..Len(t) : t[i] \in Digits}
    IN  IF at = {} THEN PointNone
        ELSE DigitRun(t, CHOOSE i \in at : \A j \in at : i <= j, 0)

is_comments_row(row) == "COMMENTS" \in Range(row.c0)

\* the first comments row, or one past the last row
results_end_idx(rows) ==
    LET at == {i \in 1..Len(rows) : is_comments_row(rows[i])}
    IN  IF at = {} THEN Len(rows) + 1 ELSE CHOOSE i \in at : \A j \in at : i <= j

\* a point numbered 1 never closes anything
NewSeries_Never(num, cur) == FALSE

\* a point numbered 1 closes the series that is open
NewSeries(num, cur) == num = 1 /\ cur # <<>>

Closed(blocks, cur) == IF cur # <<>> THEN Append(blocks, cur) ELSE blocks

\* the loop over range(data_start, end_idx) from row ri on
RECURSIVE CollectBlocks(_, _, _, _, _)
CollectBlocks(rows, ri, end_idx, cur, blocks) ==
    IF ri >= end_idx THEN Closed(blocks, cur)
    ELSE IF rows[ri].short \/ get_point_number(rows[ri].pt) = PointNone
         THEN CollectBlocks(rows, ri + 1, end_idx, <<>>, Closed(blocks, cur))
         ELSE IF NewSeries(get_point_number(rows[ri].pt), cur)
              THEN CollectBlocks(rows, ri + 1, end_idx, <<ri>>, Append(blocks, cur))
              ELSE CollectBlocks(rows, ri + 1, end_idx, Append(cur, ri), blocks)

\* the vertical merge of columns 0 and 1 a row gets from the blocks
MergeOfRow(blocks, ri) ==
    IF \E b \in 1..Len(blocks) : Len(blocks[b]) > 1 /\ blocks[b][1] = ri
    THEN "restart"
    ELSE IF \E b \in 1..Len(blocks) : Len(blocks[b]) > 1 /\ ri \in Range(blocks[b])
         THEN "continue"
         ELSE "none"

process_test_results_tables(rows) ==
    LET blocks == CollectBlocks(rows, 1, results_end_idx(rows), <<>>, <<>>)
    IN  [blocks |-> blocks,
         vm |-> [ri \in 1..Len(rows) |-> MergeOfRow(blocks, ri)]]

InitBlocks ==
    /\ InitSplitIdle
    /\ InitExpIdle
    /\ InitRenderIdle
    /\ InitRestIdle
    /\ fn = ""
    /\ arg \in SeqsUpTo(ResRows, MaxResRows)
    /\ res = <<>>

DoProcessResults ==
    Apply("process_test_results_tables", process_test_results_tables(arg))

DoPointNumbers ==
    Apply("get_point_number", [i \in 1..Len(arg) |-> get_point_number(arg[i].pt)])

NextBlocks == DoProcessResults \/ DoPointNumbers

SpecBlocks == InitBlocks /\ [][NextBlocks]_vars

\* the row carries a point number
HasPoint(row) == ~row.short /\ get_point_number(row.pt) # PointNone

\* C25: the merge blocks are pairwise disjoint runs of consecutive rows
\* that all carry a point number; a row without one is in no block, a row
\* with point number 1 starts a new block, no block reaches the comments
\* row, and columns 0 and 1 are merged over the blocks and nowhere else.
C25_PointBlocks ==
    fn = "process_test_results_tables"
        => LET blocks == res.blocks
               InBlock(ri) == \E b \in 1..Len(blocks) : ri \in Range(blocks[b])
           IN  /\ \A b \in 1..Len(blocks) :
                     /\ blocks[b] # <<>>
                     /\ \A j \in 1..Len(blocks[b]) :
                           /\ blocks[b][j] \in 1..Len(arg)
                           /\ HasPoint(arg[blocks[b][j]])
                           /\ blocks[b][j] < results_end_idx(arg)
                           /\ j > 1 => /\ blocks[b][j] = blocks[b][j - 1] + 1
                                       /\ get_point_number(arg[blocks[b][j]].pt) # 1
               /\ \A b, c \in 1..Len(blocks) :
                     b # c => Range(blocks[b]) \cap Range(blocks[c]) = {}
               /\ \A ri \in 1..Len(arg) :
                     /\ (HasPoint(arg[ri]) /\ ri < results_end_idx(arg)) => InBlock(ri)
                     /\ res.vm[ri] # "none" => InBlock(ri)
                     /\ res.vm[ri] = "continue"
                           => res.vm[ri - 1] \in {"restart", "continue"}

\* points 1, 2, then a point 1 that starts the second block, then the
\* average row: two blocks, the first merged over two rows
C25_Witness ==
    /\ fn = "process_test_results_tables"
    /\ Len(arg) = 4
    /\ res.blocks = <<<<1, 2>>, <<3>>>>
    /\ get_point_number(arg[3].pt) = 1
    /\ ~HasPoint(arg[4])
    /\ res.vm = <<"restart", "continue", "none", "none">>

\* C26: the inserted test tables stand in selection order and are numbered
\* 11.1, 11.2, ..., 11.k without gaps, k being the number of tables
\* inserted, also when some selected tests are not in the test bank.
C26_TestsRenumbered ==
    "tests" \in Range(worker.log)
        => /\ [i \in 1..Len(worker.tests) |-> worker.tests[i].title]
                 = SelectSeq(worker.job.selected, LAMBDA t : t \in worker.job.bank)
           /\ \A i \in 1..Len(worker.tests) : worker.tests[i].number = i

(***************************************************************************)
(* Table 2 of the report (word_table2_otch_splitter.                       *)
(* split_table2_with_continuation_word)                                    *)
(*                                                                         *)
(* t2 = [pc, rows, splits_done, cut, start, did_any]: rows are the data    *)
(* rows of cur_table, cut the data rows left in each table that was cut,   *)
(* start the data rows of Table 2 before the loop.  Word's pagination is   *)
(* an oracle: with page numbers that do not decrease along the table the   *)
(* rows that end on the page of the header are a prefix of the data rows,  *)
(* and the oracle gives its length.                                        *)
(***************************************************************************)
MaxT2Rows == 3

max_splits == 20

InitT2 ==
    /\ InitSplitIdle
    /\ InitExpIdle
    /\ InitPureIdle
    /\ InitRenderIdle
    /\ temps = <<>>
    /\ t11 = <<>>
    /\ \E n \in 1..MaxT2Rows :
          t2 = [pc |-> "while", rows |-> n, splits_done |-> 0, cut |-> <<>>,
                start |-> n, did_any |-> FALSE]

\* the first data row that ends on a later page than the header, as a
\* 1-based index among the data rows; 0 when there is none
split_row(rows, on_base_page) == IF on_base_page < rows THEN on_base_page + 1 ELSE 0

\* one pass of the while loop that cuts: the copy loses the rows before
\* split_row_idx, cur_table the rows from it on, the copy becomes cur_table
T2Split ==
    /\ t2.pc = "while"
    /\ t2.splits_done < max_splits
    /\ \E on_base_page \in 0..t2.rows :
          LET split_row_idx == split_row(t2.rows, on_base_page)
          IN  /\ split_row_idx # 0
              /\ t2' = [t2 EXCEPT !.cut = Append(t2.cut, split_row_idx - 1),
                                  !.rows = t2.rows - (split_row_idx - 1),
                                  !.splits_done = t2.splits_done + 1,
                                  !.did_any = TRUE]
    /\ UNCHANGED <<splitVars, expVars, pureVars, renderVars, temps, t11>>

\* split_row_idx is None: break
T2Fits ==
    /\ t2.pc = "while"
    /\ t2.splits_done < max_splits
    /\ \E on_base_page \in 0..t2.rows : split_row(t2.rows, on_base_page) = 0
    /\ t2' = [t2 EXCEPT !.pc = "saved"]
    /\ UNCHANGED <<splitVars, expVars, pureVars, renderVars, temps, t11>>

\* the loop condition fails
T2MaxSplits ==
    /\ t2.pc = "while"
    /\ t2.splits_done >= max_splits
    /\ t2' = [t2 EXCEPT !.pc = "saved"]
    /\ UNCHANGED <<splitVars, expVars, pureVars, renderVars, temps, t11>>

NextT2 == T2Split \/ T2Fits \/ T2MaxSplits

SpecT2 == InitT2 /\ [][NextT2]_vars

\* C28: every pass of the loop leaves at least one data row in the table
\* it cuts and hands strictly fewer data rows on, so there are at most as
\* many splits as Table 2 had data rows and the loop does not run into
\* max_splits.
C28_SplitProgress ==
    /\ \A i \in 1..Len(t2.cut) : t2.cut[i] >= 1
    /\ t2.rows >= 1
    /\ t2.rows + t2.splits_done <= t2.start
    /\ t2.splits_done < t2.start

\* C29: split_test_results_table is idempotent: called again on the
\* document it has split, it returns 0 and changes nothing, whatever the
\* table holds.
C29_ResultsSplitIdempotent ==
    (/\ Len(calls) = 2
     /\ calls[1].op = "results" /\ calls[2].op = "results"
     /\ calls[1].exit = "split")
        => /\ calls[2].ret = "0"
           /\ body = before

(***************************************************************************)
(* Test 11 calculator (tools/test11_airflow_calc.MainWindow.save_docx)     *)
(*                                                                         *)
(* t11 = [job, rows, pc, r, f, starts].  A row is [kind, vm]: vm gives the *)
(* merge state of its cell in each of the columns filter, S, factL, factR  *)
(* and crit.  job.col_criterion is the column left of the yes/no columns:  *)
(* a column of its own ("crit"), one of the fact columns, or "none" when   *)
(* the criterion merge is skipped.  python-docx hands out, for a cell that *)
(* continues a vertical merge, the cell at the top of the merge, so a cell *)
(* of row.cells is modelled by the row of the cell it stands for.          *)
(***************************************************************************)
MaxT11Rooms == 2
MaxFilters == 2
MaxPoints == 2

T11Cols == {"filter", "S", "factL", "factR", "crit"}

T11Row(kind) == [kind |-> kind, vm |-> [c \in T11Cols |-> "none"]]

T11Jobs ==
    [rooms : SeqsUpTo([filters : 1..MaxFilters, points : 1..MaxPoints], MaxT11Rooms) \ {<<>>},
     has_mean : BOOLEAN,
     has_fact_right : BOOLEAN,
     col_criterion : {"crit", "factR", "factL", "none"}]

ColVm(rows, col) == [i \in 1..Len(rows) |-> rows[i].vm[col]]

\* row.cells[col] of row r: the row whose cell python-docx returns
RECURSIVE CellRef(_, _)
CellRef(vm, r) == IF vm[r] = "continue" /\ r > 1 THEN CellRef(vm, r - 1) ELSE r

\* the cells of rows start_row .. start_row + n_rows - 1 in the column
collect_column_cells(rows, start_row, n_rows, col) ==
    IF start_row < 1 \/ start_row + n_rows - 1 > Len(rows) THEN <<>>
    ELSE [i \in 1..n_rows |-> CellRef(ColVm(rows, col), start_row + i - 1)]

\* vmerge_cells on the cells that were collected: every one is cleared, the
\* first gets restart, then each of the others gets continue, in this order
vmerge_collected(vm, cells) ==
    IF cells = <<>> THEN vm
    ELSE [r \in 1..Len(vm) |->
            IF r \in Range(Tail(cells)) THEN "continue"
            ELSE IF r = Head(cells) THEN "restart"
            ELSE vm[r]]

MergeColumn(rows, start_row, n_rows, col) ==
    LET vm == vmerge_collected(ColVm(rows, col),
                               collect_column_cells(rows, start_row, n_rows, col))
    IN  [i \in 1..Len(rows) |-> [rows[i] EXCEPT !.vm[col] = vm[i]]]

\* merge_block: the filter, area and left fact columns of one filter block
merge_block(rows, start_row, n_rows) ==
    MergeColumn(MergeColumn(MergeColumn(rows, start_row, n_rows, "filter"),
                            start_row, n_rows, "S"),
                start_row, n_rows, "factL")

block_height_fn(job, room_idx) ==
    job.rooms[room_idx].points + (IF job.has_mean THEN 1 ELSE 0)

\* the rows of one filter block: the points, then the mean row
BlockRows(job, room_idx) ==
    [i \in 1..job.rooms[room_idx].points |-> T11Row("data")]
        \o (IF job.has_mean THEN <<T11Row("mean")>> ELSE <<>>)

InitT11 ==
    /\ InitSplitIdle
    /\ InitExpIdle
    /\ InitPureIdle
    /\ InitRenderIdle
    /\ temps = <<>>
    /\ t2 = <<>>
    /\ \E job \in T11Jobs :
          t11 = [job |-> job, rows |-> <<>>, pc |-> "build", r |-> 1, f |-> 0,
                 starts |-> <<>>]

\* the header row of a room: the one of the template for the first room, a
\* copy of it after the last block for the others
T11RoomHeader ==
    /\ t11.pc = "build"
    /\ t11.f = 0
    /\ t11' = [t11 EXCEPT !.rows = Append(t11.rows, T11Row("header")),
                          !.f = 1,
                          !.starts = Append(t11.starts, <<>>)]
    /\ UNCHANGED <<splitVars, expVars, pureVars, renderVars, temps, t2>>

\* one filter block: its rows are inserted after the last row, filled and
\* merged; after the last block of the last room the room merges follow
T11FilterBlock ==
    /\ t11.pc = "build"
    /\ t11.f >= 1
    /\ LET block_start == Len(t11.rows) + 1
           rows == t11.rows \o BlockRows(t11.job, t11.r)
           last_filter == t11.f = t11.job.rooms[t11.r].filters
           last_room == t11.r = Len(t11.job.rooms)
       IN  t11' = [t11 EXCEPT
                      !.rows = merge_block(rows, block_start,
                                           block_height_fn(t11.job, t11.r)),
                      !.starts[t11.r] = Append(t11.starts[t11.r], block_start),
                      !.f = IF last_filter THEN 0 ELSE t11.f + 1,
                      !.r = IF last_filter THEN (IF last_room THEN 1 ELSE t11.r + 1)
                            ELSE t11.r,
                      !.pc = IF last_filter /\ last_room THEN "merge" ELSE "build"]
    /\ UNCHANGED <<splitVars, expVars, pureVars, renderVars, temps, t2>>

\* the merges of one room over all its blocks: the right fact column, then
\* the criterion column
T11RoomMerge ==
    /\ t11.pc = "merge"
    /\ LET starts == t11.starts[t11.r]
           seg_start == starts[1]
           seg_rows == (starts[Len(starts)] + block_height_fn(t11.job, t11.r)) - seg_start
           rowsR == IF t11.job.has_fact_right
                    THEN MergeColumn(t11.rows, seg_start, seg_rows, "factR")
                    ELSE t11.rows
           rowsC == IF t11.job.col_criterion # "none"
                    THEN MergeColumn(rowsR, seg_start, seg_rows, t11.job.col_criterion)
                    ELSE rowsR
       IN  t11' = [t11 EXCEPT
                      !.rows = rowsC,
                      !.r = IF t11.r = Len(t11.job.rooms) THEN t11.r ELSE t11.r + 1,
                      !.pc = IF t11.r = Len(t11.job.rooms) THEN "done" ELSE "merge"]
    /\ UNCHANGED <<splitVars, expVars, pureVars, renderVars, temps, t2>>

NextT11 == T11RoomHeader \/ T11FilterBlock \/ T11RoomMerge

SpecT11 == InitT11 /\ [][NextT11]_vars

\* every continue cell of the column has a restart cell above it with only
\* continue cells in between
WellFormedColumn(vm) ==
    \A i \in 1..Len(vm) :
        vm[i] = "continue" => (i > 1 /\ vm[i - 1] \in {"restart", "continue"})

\* C30: through all row insertions and merges of save_docx the vertical
\* merges of every column of the Test 11 table are well-formed, for any
\* numbers of rooms, filters and points, also when the criterion column is
\* a column that is already merged.
C30_MergesWellFormed ==
    \A col \in T11Cols : WellFormedColumn(ColVm(t11.rows, col))

====
